---------------------------- MODULE Spec2Model ----------------------------
(***************************************************************************)
(* Continuously Casting Dashboards: the cast executor (casting.py), the    *)
(* status probes (device.py) and the reconciliation tick (monitoring.py).  *)
(*                                                                         *)
(* Text is modelled as Python sees it: a status output is a sequence of    *)
(* lines, a line is a sequence of one-character strings, and the probes    *)
(* are computed on it with the substring / prefix tests of the code.       *)
(* Wall-clock time is modelled by ages: the age of an in-flight marker is  *)
(* time.time() - start_time in units in which casting_timeout is           *)
(* CastingTimeout, saturated one unit above it.                            *)
(***************************************************************************)
EXTENDS Integers, Sequences, FiniteSets, TLC

-----------------------------------------------------------------------------
(* Bounds of the model *)

\* config['casting_timeout'], in age units (elapsed > timeout <=> age > CastingTimeout)
CastingTimeout == 1
\* largest configured max_retries explored besides the default
MaxRetriesCfg == 2
\* configured volumes explored are -1 .. MaxCfgVolume (the UI range is 0..10)
MaxCfgVolume == 11
\* the reconnect attempts explored from 0 and from the ceiling (TickAllowed)
MaxReconnects == 2

(* Program constants *)
DEFAULT_MAX_RETRIES == 5
DEFAULT_RETRY_DELAY == 10
\* `if attempts > 10`: the reconnect attempts after which reconnecting backs off
RECONNECT_CEILING == 10

IPs == {"10.0.0.1", "10.0.0.2"}
\* the tasks that can be inside async_cast_dashboard: the background
\* initialisation task and the monitoring tick task
Callers == {"init", "tick"}
Urls == {"urlA", "urlB"}
Kinds == {"status_vol", "stop", "vol_initial", "cast", "vol_final"}

-----------------------------------------------------------------------------
(* Python string operations on sequences of characters *)

UpperChars == <<"A","B","C","D","E","F","G","H","I","J","K","L","M",
                "N","O","P","Q","R","S","T","U","V","W","X","Y","Z">>
LowerChars == <<"a","b","c","d","e","f","g","h","i","j","k","l","m",
                "n","o","p","q","r","s","t","u","v","w","x","y","z">>
DigitChars == <<"0","1","2","3","4","5","6","7","8","9">>

\* str.lower() on one character
LowerChar(ch) ==
  IF \E i \in 1..Len(UpperChars) : UpperChars[i] = ch
  THEN LowerChars[CHOOSE i \in 1..Len(UpperChars) : UpperChars[i] = ch]
  ELSE ch

\* line.lower()
Lower(line) == [i \in 1..Len(line) |-> LowerChar(line[i])]

\* line.startswith(pre)
StartsWith(line, pre) ==
  /\ Len(line) >= Len(pre)
  /\ \A i \in 1..Len(pre) : line[i] = pre[i]

\* sub in line
Contains(line, sub) ==
  \E k \in 0..(Len(line) - Len(sub)) :
     \A i \in 1..Len(sub) : line[k + i] = sub[i]

\* sub in text, for a sub without a newline and a text given by its lines
TextContains(out, sub) == \E i \in 1..Len(out) : Contains(out[i], sub)

\* sub in text.lower()
TextContainsLower(out, sub) == \E i \in 1..Len(out) : Contains(Lower(out[i]), sub)

RECURSIVE LStrip(_)
LStrip(t) == IF Len(t) > 0 /\ t[1] = " " THEN LStrip(Tail(t)) ELSE t

RECURSIVE RStrip(_)
RStrip(t) ==
  IF Len(t) > 0 /\ t[Len(t)] = " " THEN RStrip(SubSeq(t, 1, Len(t) - 1)) ELSE t

\* str.strip()
Strip(t) == RStrip(LStrip(t))

\* line.split(":", 1)[1] for a line that holds a colon
AfterFirstColon(line) ==
  LET i == CHOOSE j \in 1..Len(line) :
              line[j] = ":" /\ \A k \in 1..(j - 1) : line[k] # ":"
  IN  SubSeq(line, i + 1, Len(line))

IsDigit(ch) == \E i \in 1..Len(DigitChars) : DigitChars[i] = ch
DigitVal(ch) == (CHOOSE i \in 1..Len(DigitChars) : DigitChars[i] = ch) - 1

RECURSIVE DigitsValue(_)
DigitsValue(t) ==
  IF Len(t) = 0 THEN 0
  ELSE 10 * DigitsValue(SubSeq(t, 1, Len(t) - 1)) + DigitVal(t[Len(t)])

\* int(text): an optional sign followed by one or more digits, ValueError otherwise
ParseInt(t) ==
  LET signed == Len(t) > 0 /\ t[1] \in {"-", "+"}
      digits == IF signed THEN Tail(t) ELSE t
      ok     == Len(digits) > 0 /\ \A i \in 1..Len(digits) : IsDigit(digits[i])
  IN  [ok  |-> ok,
       val |-> IF ~ok THEN 0
               ELSE IF signed /\ t[1] = "-" THEN 0 - DigitsValue(digits)
               ELSE DigitsValue(digits)]

-----------------------------------------------------------------------------
(* Outputs the external command can give *)

L_Vol50 == <<"V","o","l","u","m","e",":"," ","5","0">>
L_Vol0 == <<"V","o","l","u","m","e",":"," ","0">>
L_Vol150 == <<"V","o","l","u","m","e",":"," ","1","5","0">>
L_VolNeg == <<"V","o","l","u","m","e",":"," ","-","5">>
L_VolBad == <<"V","o","l","u","m","e",":"," ","a","b","c">>
L_VolMuted == <<"V","o","l","u","m","e"," ","m","u","t","e","d",":"," ","F","a","l","s","e">>
L_TitleDummy == <<"T","i","t","l","e",":"," ","D","u","m","m","y">>
L_TitleSong == <<"T","i","t","l","e",":"," ","S","o","n","g">>
L_TitleIdleTown == <<"T","i","t","l","e",":"," ","I","d","l","e"," ","T","o","w","n">>
L_StatePlaying == <<"S","t","a","t","e",":"," ","P","L","A","Y","I","N","G">>
L_StatePaused == <<"S","t","a","t","e",":"," ","P","A","U","S","E","D">>
L_Nothing == <<"N","o","t","h","i","n","g"," ","i","s"," ","c","u","r","r","e","n","t","l","y"," ","p","l","a","y","i","n","g",".">>
L_Assistant == <<"A","p","p",":"," ","G","o","o","g","l","e"," ","A","s","s","i","s","t","a","n","t">>
L_Backdrop == <<"A","p","p",":"," ","B","a","c","k","d","r","o","p">>
L_CastOk == <<"C","a","s","t","i","n","g"," ","u","r","l","A"," ","o","n"," ","K","i","t","c","h","e","n">>
L_CastNoOn == <<"C","a","s","t","i","n","g"," ","u","r","l","A">>
L_Err == <<"E","r","r","o","r",":"," ","c","o","n","n","e","c","t","i","o","n"," ","r","e","f","u","s","e","d">>

\* stdout of `catt -d <ip> status`, stripped and split into lines
StatusTexts ==
  { <<>>,
    <<L_Vol50, L_VolMuted>>,
    <<L_Vol0>>,
    <<L_Vol150>>,
    <<L_VolNeg, L_VolMuted>>,
    <<L_VolBad>>,
    <<L_VolMuted>>,
    <<L_TitleDummy, L_Vol50>>,
    <<L_TitleDummy, L_StatePlaying, L_Vol50>>,
    <<L_TitleSong, L_StatePlaying, L_Vol0>>,
    <<L_StatePaused, L_Vol50>>,
    <<L_TitleIdleTown, L_StatePlaying, L_Vol50>>,
    <<L_Nothing, L_Vol50, L_VolMuted>>,
    <<L_Assistant, L_Vol50>>,
    <<L_Backdrop, L_Vol150>> }

\* what awaiting a status command can give: a timeout, or an exit code and stdout
ProbeResults ==
  {[timeout |-> TRUE, rc |-> 0, out |-> <<>>]} \cup
  {[timeout |-> FALSE, rc |-> r, out |-> o] : r \in {0, 1}, o \in StatusTexts}

\* stdout of `catt -d <ip> cast_site <url>`
CastTexts == { <<>>, <<L_CastOk>>, <<L_CastNoOn>>, <<L_Err>> }

CastResults ==
  {[timeout |-> TRUE, rc |-> 0, out |-> <<>>]} \cup
  {[timeout |-> FALSE, rc |-> r, out |-> o] : r \in {0, 1}, o \in CastTexts}

-----------------------------------------------------------------------------
(* StatusProbe: device.py *)

\* len(lines) <= 2 and all(line.startswith("Volume") for line in lines)
IsIdleSignature(out) ==
  /\ Len(out) <= 2
  /\ \A i \in 1..Len(out) : StartsWith(out[i], <<"V","o","l","u","m","e">>)

media_apps ==
  << <<"s","p","o","t","i","f","y">>,
     <<"y","o","u","t","u","b","e">>,
     <<"n","e","t","f","l","i","x">>,
     <<"p","l","e","x">>,
     <<"d","i","s","n","e","y","+">>,
     <<"h","u","l","u">>,
     <<"a","m","a","z","o","n"," ","p","r","i","m","e">>,
     <<"m","u","s","i","c">>,
     <<"a","u","d","i","o">>,
     <<"v","i","d","e","o">>,
     <<"c","a","s","t">> >>

\* "Idle" in out or "Nothing is currently playing" in out
SaysIdle(out) ==
  \/ TextContains(out, <<"I","d","l","e">>)
  \/ TextContains(out, <<"N","o","t","h","i","n","g"," ","i","s"," ","c","u","r","r","e","n","t","l","y"," ","p","l","a","y","i","n","g">>)

\* DeviceManager.async_is_media_playing, on the result of its status command
async_is_media_playing(pr) ==
  IF pr.timeout THEN FALSE
  ELSE IF pr.rc # 0 THEN FALSE
  ELSE IF IsIdleSignature(pr.out) THEN FALSE
  ELSE IF TextContains(pr.out, <<"C","a","s","t","i","n","g",":"," ","S","t","a","r","t","i","n","g">>) THEN TRUE
  ELSE IF TextContainsLower(pr.out, <<"a","s","s","i","s","t","a","n","t">>) THEN TRUE
  ELSE IF SaysIdle(pr.out) THEN FALSE
  ELSE IF \E i \in 1..Len(pr.out) :
             /\ Contains(pr.out[i], <<"S","t","a","t","e",":">>)
             /\ \/ Contains(pr.out[i], <<"P","L","A","Y","I","N","G">>)
                \/ Contains(pr.out[i], <<"P","A","U","S","E","D">>)
                \/ Contains(pr.out[i], <<"B","U","F","F","E","R","I","N","G">>)
       THEN TRUE
  ELSE IF \E i \in 1..Len(pr.out) :
             /\ Contains(pr.out[i], <<"T","i","t","l","e",":">>)
             /\ ~Contains(pr.out[i], <<"D","u","m","m","y">>)
       THEN TRUE
  ELSE IF \E a \in 1..Len(media_apps) : TextContainsLower(pr.out, media_apps[a]) THEN TRUE
  ELSE IF /\ ~TextContains(pr.out, <<"D","u","m","m","y">>)
          /\ \/ TextContainsLower(pr.out, <<"p","l","a","y","i","n","g">>)
             \/ TextContainsLower(pr.out, <<"p","a","u","s","e","d">>)
             \/ TextContainsLower(pr.out, <<"b","u","f","f","e","r","i","n","g">>)
       THEN TRUE
  ELSE FALSE

dashboard_indicators ==
  << <<"8","1","2","3">>,
     <<"d","a","s","h","b","o","a","r","d">>,
     <<"k","i","o","s","k">>,
     <<"h","o","m","e","a","s","s","i","s","t","a","n","t">> >>

\* DeviceManager.async_check_device_status, on the result of its status command
async_check_device_status(pr) ==
  IF pr.timeout THEN FALSE
  ELSE IF pr.rc # 0 THEN FALSE
  ELSE IF IsIdleSignature(pr.out) THEN FALSE
  ELSE IF SaysIdle(pr.out) THEN FALSE
  ELSE IF TextContains(pr.out, <<"D","u","m","m","y">>) THEN TRUE
  ELSE IF \E a \in 1..Len(dashboard_indicators) :
             TextContainsLower(pr.out, dashboard_indicators[a]) THEN TRUE
  ELSE FALSE

-----------------------------------------------------------------------------
(* State *)

VARIABLES
  max_retries,                \* config.get('max_retries', DEFAULT_MAX_RETRIES)
  active_casting_operations,  \* dict: ip -> [age, dashboard_url, owner]
  active_subprocesses,        \* dict: <<ip, kind>> (the key f"{ip}_{kind}") -> the task whose process it is
  proc,                       \* per task: the subprocess it awaits: "none", "running", "hung" or "terminated"
  co,                         \* per task: its activation of async_cast_dashboard
  setup,                      \* the configuration: the device's windows, the switches
  now,                        \* dt_util.now().time(), in seconds since midnight
  monitor_lock,               \* MonitoringManager.monitor_lock is held
  task,                       \* per invocation of async_monitor_devices: where it is
  body,                       \* the locals of the tick body that holds the lock
  active_device_configs,      \* MonitoringManager.active_device_configs[device_name]
  active_devices,             \* DeviceManager.active_devices[device_key]
  device_ip_cache,            \* DeviceManager.device_ip_cache: name -> [ip, age]
  last_call,                  \* the last call of a function under check: its arguments and what it gave
  unsubscribe_listeners,      \* ContinuouslyCastingDashboards.unsubscribe_listeners: the time interval listeners
  health_stats                \* StatsManager.health_stats[device_key], and whether the tick has a stats_manager

castVars == <<max_retries, active_casting_operations, active_subprocesses, proc, co>>
callVars == <<device_ip_cache, last_call, unsubscribe_listeners, health_stats>>
monVars == <<setup, now, monitor_lock, task, body, active_device_configs, active_devices, callVars>>
vars == <<castVars, monVars>>

\* device_config.get('volume', None)
NoVolume == [given |-> FALSE, v |-> 0]
Volume(n) == [given |-> TRUE, v |-> n]

\* what the status command of async_get_current_volume gave: whether it exited
\* with code 0 in time, and then its stdout
NoStatus == [ok |-> FALSE, out |-> <<>>]
StatusOf(pr) == IF pr.timeout \/ pr.rc # 0 THEN NoStatus ELSE [ok |-> TRUE, out |-> pr.out]

\* a task that is not inside async_cast_dashboard; retry_delay is the fraction
\* num/den of seconds
IdleCo ==
  [pc |-> "idle", ip |-> "", url |-> "", config_volume |-> NoVolume,
   attempt |-> 0, retry_delay |-> [num |-> DEFAULT_RETRY_DELAY, den |-> 1],
   volume_status |-> NoStatus, current_volume |-> 0,
   stop_exit |-> "none", vol_exit |-> "none", cast_exit |-> "none",
   cast_likely_succeeded |-> FALSE, status_check |-> FALSE,
   final_volume |-> 0, issued |-> <<>>, todo |-> <<>>,
   result |-> FALSE, outcome |-> "none"]

\* the awaits of one attempt, in order
AttemptPcs == {"media", "status_vol", "stop", "vol_initial", "cast", "verify", "vol_final"}
\* the task is inside the try block of async_cast_dashboard, executing the sequence
RunningPcs == AttemptPcs \cup {"retry_sleep"}
\* the task awaits process.wait() inside cleanup_casting_operation
CleanupPcs == {"takeover_wait", "cleanup_wait"}

-----------------------------------------------------------------------------
(* CastExecutor: casting.py *)

\* dict.pop(key, None)
Pop(d, key) == [k \in DOMAIN d \ {key} |-> d[k]]

\* d[key] = val
Put(d, key, val) == [k \in DOMAIN d \cup {key} |-> IF k = key THEN val ELSE d[k]]

\* active_subprocesses is a dict in insertion order: a sequence of entries
\* [key |-> <<ip, kind>>, owner |-> the task whose process it is]
Has(subs, key) == \E i \in 1..Len(subs) : subs[i].key = key
OwnerOf(subs, key) == subs[CHOOSE i \in 1..Len(subs) : subs[i].key = key].owner

\* self.active_subprocesses.pop(key, None)
Unregister(subs, key) == SelectSeq(subs, LAMBDA e : e.key # key)

\* self.active_subprocesses[key] = process
Register(subs, key, c) ==
  IF Has(subs, key)
  THEN [i \in 1..Len(subs) |-> IF subs[i].key = key THEN [key |-> key, owner |-> c] ELSE subs[i]]
  ELSE Append(subs, [key |-> key, owner |-> c])

\* [key for key in list(self.active_subprocesses.keys()) if key.startswith(f"{ip}_")]
RECURSIVE KeysOf(_, _)
KeysOf(subs, ip) ==
  IF subs = <<>> THEN <<>>
  ELSE IF Head(subs).key[1] = ip THEN <<Head(subs).key>> \o KeysOf(Tail(subs), ip)
  ELSE KeysOf(Tail(subs), ip)

\* a guard that already takes over at elapsed = timeout
IsStuck_AtTimeout(op) == op.age >= CastingTimeout

\* elapsed > timeout, for the marker of an operation
IsStuck(op) == op.age > CastingTimeout

\* cleanup_casting_operation: the marker of ip is popped
CleanupMarker(ops, ip) == Pop(ops, ip)

\* cleanup_casting_operation, the loop over the keys of ip from `todo` on, up to
\* its next await: each key is popped (KeyError if it is gone); a process
\* that is still running is terminated and its exit is awaited
RECURSIVE CleanupSubprocesses(_, _, _)
CleanupSubprocesses(subs, p, todo) ==
  IF todo = <<>> THEN [status |-> "done", subs |-> subs, proc |-> p, todo |-> <<>>]
  ELSE IF ~Has(subs, Head(todo))
  THEN [status |-> "KeyError", subs |-> subs, proc |-> p, todo |-> <<>>]
  ELSE LET owner == OwnerOf(subs, Head(todo))
           rest == Unregister(subs, Head(todo))
       IN  IF p[owner] \in {"running", "hung"}
           THEN [status |-> "await", subs |-> rest,
                 proc |-> [p EXCEPT ![owner] = "terminated"], todo |-> Tail(todo)]
           ELSE CleanupSubprocesses(rest, p, Tail(todo))

\* a timeout handler: if key in active_subprocesses, pop it and terminate it
TimeoutProc(p, subs, key) ==
  IF Has(subs, key) /\ p[OwnerOf(subs, key)] \in {"running", "hung"}
  THEN [p EXCEPT ![OwnerOf(subs, key)] = "terminated"]
  ELSE p

\* async_get_current_volume, on the result of its status command
async_get_current_volume(pr) ==
  IF pr.timeout THEN 50
  ELSE IF pr.rc # 0 THEN 50
  ELSE IF \E i \in 1..Len(pr.out) : StartsWith(pr.out[i], <<"V","o","l","u","m","e",":">>)
       THEN LET i == CHOOSE j \in 1..Len(pr.out) :
                        /\ StartsWith(pr.out[j], <<"V","o","l","u","m","e",":">>)
                        /\ \A k \in 1..(j - 1) : ~StartsWith(pr.out[k], <<"V","o","l","u","m","e",":">>)
                parsed == ParseInt(Strip(AfterFirstColon(pr.out[i])))
            IN  IF parsed.ok THEN parsed.val ELSE 50
  ELSE 50

\* "Casting" in stdout_str and "on" in stdout_str
CastLikelySucceeded(out) ==
  /\ TextContains(out, <<"C","a","s","t","i","n","g">>)
  /\ TextContains(out, <<"o","n">>)

Max(a, b) == IF a >= b THEN a ELSE b
Min(a, b) == IF a <= b THEN a ELSE b

\* a final volume that is not brought into the range 0..100
FinalVolume_Unclamped(config_volume, current_volume) ==
  IF config_volume.given THEN config_volume.v * 10 ELSE current_volume

\* the volume of the final `catt volume` command
FinalVolume(config_volume, current_volume) ==
  LET chosen == IF config_volume.given THEN config_volume.v * 10 ELSE current_volume
      \* if final_volume is None or not isinstance(final_volume, (int, float))
      number == IF chosen \in Int THEN chosen ELSE 50
  IN  Max(0, Min(100, number))

\* an attempt that succeeds on the verification probe alone
AttemptSucceeds_ProbeOnly(status_check, cast_likely_succeeded) == status_check

\* `if status_check or cast_likely_succeeded`: the attempt sets the final
\* volume and returns True
AttemptSucceeds(status_check, cast_likely_succeeded) ==
  status_check \/ cast_likely_succeeded

\* a retry test that allows one attempt more
RetryAgain_OneMore(attempt) == attempt < max_retries

\* `if attempt < max_retries - 1`: the failed attempt is followed by another
RetryAgain(attempt) == attempt < max_retries - 1

\* leaving the try block with result res: the finally clause runs
\* cleanup_casting_operation(ip), which returns at once or awaits a process
Return(c, cur, ops, subs, p, res, how) ==
  LET ip == co[c].ip
      run == CleanupSubprocesses(subs, p, KeysOf(subs, ip))
  IN  /\ active_casting_operations' = CleanupMarker(ops, ip)
      /\ active_subprocesses' = run.subs
      /\ proc' = [run.proc EXCEPT ![c] = "none"]
      /\ co' = [cur EXCEPT ![c].pc = IF run.status = "await" THEN "cleanup_wait" ELSE "returned",
                           ![c].todo = run.todo, ![c].result = res, ![c].outcome = how]

\* the except clause of an attempt
Except(c, cur, subs, p) ==
  IF RetryAgain(co[c].attempt)
  THEN /\ co' = [cur EXCEPT ![c].pc = "retry_sleep"]
       /\ active_subprocesses' = subs
       /\ proc' = [p EXCEPT ![c] = "none"]
       /\ UNCHANGED active_casting_operations
  ELSE Return(c, cur, active_casting_operations, subs, p, FALSE, "exhausted")

\* create_subprocess_exec of a command of the sequence, registered under its key
Spawn(c, subs, p, kind, next) ==
  /\ active_subprocesses' = Register(subs, <<co[c].ip, kind>>, c)
  /\ proc' = [p EXCEPT ![c] = "running"]
  /\ co' = [next EXCEPT ![c].pc = kind, ![c].issued = Append(@, kind)]

\* past the guard: the marker is set and the for loop over range(max_retries)
\* begins; the marker remembers the task whose call has set it
Enter(c, cur, subs, p) ==
  LET ip == cur[c].ip
      ops == Put(active_casting_operations, ip,
                 [age |-> 0, dashboard_url |-> cur[c].url, owner |-> c])
  IN  IF max_retries > 0
      THEN /\ active_casting_operations' = ops
           /\ active_subprocesses' = subs
           /\ proc' = p
           /\ co' = [cur EXCEPT ![c].pc = "media", ![c].todo = <<>>]
      ELSE \* range(0): return False, and the finally clause cleans up
           /\ active_casting_operations' = CleanupMarker(ops, ip)
           /\ LET run == CleanupSubprocesses(subs, p, KeysOf(subs, ip)) IN
              /\ active_subprocesses' = run.subs
              /\ proc' = run.proc
              /\ co' = [cur EXCEPT ![c].pc = IF run.status = "await" THEN "cleanup_wait"
                                                ELSE "returned",
                                   ![c].todo = run.todo, ![c].outcome = "exhausted"]

\* the callers (async_start_device, async_reconnect_device) test
\* `ip in self.casting_manager.active_casting_operations` and go on towards the
\* cast only if it is not; they await probes and statistics before they call
Check(c, ip) ==
  /\ co[c].pc = "idle"
  /\ ip \notin DOMAIN active_casting_operations
  /\ co' = [co EXCEPT ![c].pc = "checked", ![c].ip = ip]
  /\ UNCHANGED <<max_retries, active_casting_operations, active_subprocesses, proc>>
  /\ UNCHANGED monVars

\* the caller returns early after its check (media playing, outside the
\* window, not idle, too many attempts): no cast is requested
Abandon(c) ==
  /\ co[c].pc = "checked"
  /\ co' = [co EXCEPT ![c] = IdleCo]
  /\ UNCHANGED <<max_retries, active_casting_operations, active_subprocesses, proc>>
  /\ UNCHANGED monVars

\* async_cast_dashboard up to its first await
Call(c, url, volume) ==
  /\ co[c].pc = "checked"
  /\ LET ip == co[c].ip
         me == [co EXCEPT ![c] = [IdleCo EXCEPT !.ip = ip, !.url = url,
                                                !.config_volume = volume]] IN
     IF ip \notin DOMAIN active_casting_operations
     THEN Enter(c, me, active_subprocesses, proc)
     ELSE IF IsStuck(active_casting_operations[ip])
     THEN \* force cleaning up: await self.cleanup_casting_operation(ip)
          LET run == CleanupSubprocesses(active_subprocesses, proc, KeysOf(active_subprocesses, ip))
          IN  IF run.status = "await"
              THEN /\ active_casting_operations' = CleanupMarker(active_casting_operations, ip)
                   /\ active_subprocesses' = run.subs
                   /\ proc' = run.proc
                   /\ co' = [me EXCEPT ![c].pc = "takeover_wait", ![c].todo = run.todo]
              ELSE Enter(c, me, run.subs, run.proc)
     ELSE \* already in progress: return False
          /\ co' = [me EXCEPT ![c].pc = "returned", ![c].outcome = "rejected"]
          /\ UNCHANGED <<active_casting_operations, active_subprocesses, proc>>
  /\ UNCHANGED max_retries
  /\ UNCHANGED monVars

\* process.wait() returns inside the forced cleanup of the guard
ResumeTakeover(c) ==
  /\ co[c].pc = "takeover_wait"
  /\ LET run == CleanupSubprocesses(active_subprocesses, proc, co[c].todo) IN
     CASE run.status = "done" -> Enter(c, co, run.subs, run.proc)
       [] run.status = "await" ->
            /\ co' = [co EXCEPT ![c].todo = run.todo]
            /\ active_subprocesses' = run.subs
            /\ proc' = run.proc
            /\ UNCHANGED active_casting_operations
       [] run.status = "KeyError" ->
            /\ co' = [co EXCEPT ![c].pc = "returned", ![c].todo = <<>>, ![c].outcome = "raised"]
            /\ UNCHANGED <<active_casting_operations, active_subprocesses, proc>>
  /\ UNCHANGED max_retries
  /\ UNCHANGED monVars

\* process.wait() returns inside the cleanup of the finally clause
ResumeCleanup(c) ==
  /\ co[c].pc = "cleanup_wait"
  /\ LET run == CleanupSubprocesses(active_subprocesses, proc, co[c].todo) IN
     /\ co' = [co EXCEPT ![c].pc = IF run.status = "await" THEN "cleanup_wait" ELSE "returned",
                         ![c].todo = run.todo,
                         ![c].result = IF run.status = "KeyError" THEN FALSE ELSE @,
                         ![c].outcome = IF run.status = "KeyError" THEN "raised" ELSE @]
     /\ active_subprocesses' = run.subs
     /\ proc' = run.proc
  /\ UNCHANGED <<max_retries, active_casting_operations>>
  /\ UNCHANGED monVars

\* what the awaits of the sequence can observe, computed from the raw results
MediaOutcomes == {async_is_media_playing(pr) : pr \in ProbeResults}
DashboardOutcomes == {async_check_device_status(pr) : pr \in ProbeResults}
VolumeOf == [pr \in ProbeResults |-> async_get_current_volume(pr)]
CastOutcomes ==
  {[timeout |-> r.timeout, exit0 |-> (~r.timeout /\ r.rc = 0),
    likely |-> (~r.timeout /\ r.rc = 0 /\ CastLikelySucceeded(r.out))] : r \in CastResults}

\* await self.device_manager.async_is_media_playing(ip)
StepMedia(c, playing) ==
  /\ co[c].pc = "media"
  /\ IF playing
     THEN Return(c, co, active_casting_operations, active_subprocesses, proc, FALSE, "media_playing")
     ELSE /\ Spawn(c, active_subprocesses, proc, "status_vol", co)
          /\ UNCHANGED active_casting_operations
  /\ UNCHANGED max_retries
  /\ UNCHANGED monVars

\* await self.async_get_current_volume(ip), then the stop command is started
StepStatusVol(c, pr) ==
  /\ co[c].pc = "status_vol"
  /\ proc[c] = "terminated" => (~pr.timeout /\ pr.rc # 0)
  /\ proc[c] = "hung" => pr.timeout
  /\ LET key == <<co[c].ip, "status_vol">>
         p == IF pr.timeout THEN TimeoutProc(proc, active_subprocesses, key) ELSE proc
     IN  Spawn(c, Unregister(active_subprocesses, key), p, "stop",
               [co EXCEPT ![c].current_volume = VolumeOf[pr],
                          ![c].volume_status = StatusOf(pr)])
  /\ UNCHANGED <<max_retries, active_casting_operations>>
  /\ UNCHANGED monVars

\* a stop command after which the cast_site command is started at once
StepStop_SkipsMute(c, exit) ==
  /\ co[c].pc = "stop"
  /\ proc[c] # "hung"
  /\ proc[c] = "terminated" => exit # "zero"
  /\ Spawn(c, Unregister(active_subprocesses, <<co[c].ip, "stop">>), proc, "cast",
           [co EXCEPT ![c].stop_exit = exit])
  /\ UNCHANGED <<max_retries, active_casting_operations>>
  /\ UNCHANGED monVars

\* await stop_process.communicate() returns when the process has exited, with
\* exit code `exit` ("none": not looked at); then the volume-0 command is started
StepStop(c, exit) ==
  /\ co[c].pc = "stop"
  /\ proc[c] # "hung"
  /\ proc[c] = "terminated" => exit # "zero"
  /\ Spawn(c, Unregister(active_subprocesses, <<co[c].ip, "stop">>), proc, "vol_initial",
           [co EXCEPT ![c].stop_exit = exit])
  /\ UNCHANGED <<max_retries, active_casting_operations>>
  /\ UNCHANGED monVars

\* await vol_process.communicate() returns when the process has exited, with
\* exit code `exit`; then the cast_site command is started
StepVolInitial(c, exit) ==
  /\ co[c].pc = "vol_initial"
  /\ proc[c] # "hung"
  /\ proc[c] = "terminated" => exit # "zero"
  /\ Spawn(c, Unregister(active_subprocesses, <<co[c].ip, "vol_initial">>), proc, "cast",
           [co EXCEPT ![c].vol_exit = exit])
  /\ UNCHANGED <<max_retries, active_casting_operations>>
  /\ UNCHANGED monVars

\* await asyncio.wait_for(process.communicate(), timeout=timeout)
StepCast(c, r) ==
  /\ co[c].pc = "cast"
  /\ proc[c] = "terminated" => (~r.timeout /\ ~r.exit0)
  /\ proc[c] = "hung" => r.timeout
  /\ LET key == <<co[c].ip, "cast">> IN
     IF r.timeout
     THEN Except(c, [co EXCEPT ![c].cast_exit = "timeout"],
                 Unregister(active_subprocesses, key),
                 TimeoutProc(proc, active_subprocesses, key))
     ELSE IF ~r.exit0
     THEN \* raise Exception(f"Catt command failed: {error_msg}")
          Except(c, [co EXCEPT ![c].cast_exit = "nonzero"],
                 Unregister(active_subprocesses, key), proc)
     ELSE /\ co' = [co EXCEPT ![c].pc = "verify", ![c].cast_exit = "zero",
                              ![c].cast_likely_succeeded = r.likely]
          /\ active_subprocesses' = Unregister(active_subprocesses, key)
          /\ proc' = [proc EXCEPT ![c] = "none"]
          /\ UNCHANGED active_casting_operations
  /\ UNCHANGED max_retries
  /\ UNCHANGED monVars

\* await asyncio.sleep(verification_wait_time), then
\* await self.device_manager.async_check_device_status(ip)
StepVerify(c, status_check) ==
  /\ co[c].pc = "verify"
  /\ LET cur == [co EXCEPT ![c].status_check = status_check] IN
     IF AttemptSucceeds(status_check, co[c].cast_likely_succeeded)
     THEN /\ Spawn(c, active_subprocesses, proc, "vol_final",
                   [cur EXCEPT ![c].final_volume =
                           FinalVolume(co[c].config_volume, co[c].current_volume)])
          /\ UNCHANGED active_casting_operations
     ELSE \* raise Exception("Device not casting after command")
          Except(c, cur, active_subprocesses, proc)
  /\ UNCHANGED max_retries
  /\ UNCHANGED monVars

\* await asyncio.wait_for(final_vol_process.communicate(), timeout=10.0), return True
StepVolFinal(c, timeout) ==
  /\ co[c].pc = "vol_final"
  /\ proc[c] = "terminated" => ~timeout
  /\ proc[c] = "hung" => timeout
  /\ LET key == <<co[c].ip, "vol_final">> IN
     Return(c, co, active_casting_operations, Unregister(active_subprocesses, key),
            IF timeout THEN TimeoutProc(proc, active_subprocesses, key) ELSE proc,
            TRUE, "success")
  /\ UNCHANGED max_retries
  /\ UNCHANGED monVars

\* await asyncio.sleep(retry_delay); retry_delay *= 1.5; the next attempt of
\* the for loop begins
StepRetry(c) ==
  /\ co[c].pc = "retry_sleep"
  /\ co' = [co EXCEPT ![c] = [IdleCo EXCEPT !.pc = "media", !.ip = co[c].ip, !.url = co[c].url,
                                            !.config_volume = co[c].config_volume,
                                            !.attempt = co[c].attempt + 1,
                                            !.retry_delay = [num |-> co[c].retry_delay.num * 3,
                                                             den |-> co[c].retry_delay.den * 2]]]
  /\ UNCHANGED <<max_retries, active_casting_operations, active_subprocesses, proc>>
  /\ UNCHANGED monVars

\* asyncio.wait_for(initialize_devices(), timeout=45) cancels the initialisation
\* task at its current await: CancelledError passes the except clauses and the
\* finally clause cleans up
CancelInit ==
  /\ co["init"].pc \in RunningPcs \cup CleanupPcs
  /\ IF co["init"].pc \in RunningPcs
     THEN Return("init", co, active_casting_operations, active_subprocesses, proc,
                 FALSE, "cancelled")
     ELSE \* cancelled inside cleanup_casting_operation: the rest of it is skipped
          /\ co' = [co EXCEPT !["init"].pc = "returned", !["init"].todo = <<>>,
                              !["init"].result = FALSE, !["init"].outcome = "cancelled"]
          /\ UNCHANGED <<active_casting_operations, active_subprocesses, proc>>
  /\ UNCHANGED max_retries
  /\ UNCHANGED monVars

\* the caller has taken the result
Finish(c) ==
  /\ co[c].pc = "returned"
  /\ co[c].outcome # "cancelled"
  /\ co' = [co EXCEPT ![c] = IdleCo]
  /\ UNCHANGED <<max_retries, active_casting_operations, active_subprocesses, proc>>
  /\ UNCHANGED monVars

\* time passes: every in-flight marker grows older
AdvanceTime ==
  /\ \E ip \in DOMAIN active_casting_operations :
        active_casting_operations[ip].age <= CastingTimeout
  /\ active_casting_operations' =
       [ip \in DOMAIN active_casting_operations |->
          [active_casting_operations[ip] EXCEPT !.age = Min(@ + 1, CastingTimeout + 1)]]
  /\ UNCHANGED <<max_retries, active_subprocesses, proc, co>>
  /\ UNCHANGED monVars

\* one await of the cast sequence of task c returns, with status results from V
\* for async_get_current_volume
CastStep(c, V) ==
  \/ \E playing \in MediaOutcomes : StepMedia(c, playing)
  \/ \E pr \in V : StepStatusVol(c, pr)
  \/ StepStop(c, "none")
  \/ StepVolInitial(c, "none")
  \/ \E r \in CastOutcomes : StepCast(c, r)
  \/ \E status_check \in DashboardOutcomes : StepVerify(c, status_check)
  \/ \E timeout \in BOOLEAN : StepVolFinal(c, timeout)
  \/ StepRetry(c)

\* the exit codes of the stop and the volume-0 command
ExitCodes == {"zero", "nonzero"}

\* the awaits of an external command of the sequence
CommandPcs == {"status_vol", "stop", "vol_initial", "cast", "vol_final"}

\* the command that task c awaits will not exit by itself
Hang(c) ==
  /\ co[c].pc \in CommandPcs
  /\ proc[c] = "running"
  /\ proc' = [proc EXCEPT ![c] = "hung"]
  /\ UNCHANGED <<max_retries, active_casting_operations, active_subprocesses, co>>
  /\ UNCHANGED monVars

\* one await of the cast sequence of task c returns; the exit codes of the
\* stop and the volume-0 command are recorded
CommandStep(c, V) ==
  \/ \E playing \in MediaOutcomes : StepMedia(c, playing)
  \/ \E pr \in V : StepStatusVol(c, pr)
  \/ \E exit \in ExitCodes : StepStop(c, exit)
  \/ \E exit \in ExitCodes : StepVolInitial(c, exit)
  \/ \E r \in CastOutcomes : StepCast(c, r)
  \/ \E status_check \in DashboardOutcomes : StepVerify(c, status_check)
  \/ \E timeout \in BOOLEAN : StepVolFinal(c, timeout)
  \/ StepRetry(c)

-----------------------------------------------------------------------------
(* Time windows and the enable switches: utils.py *)

\* a key of a configuration dict that may be absent
Unset == [given |-> FALSE, text |-> <<>>]
Text(t) == [given |-> TRUE, text |-> t]

\* dict.get(key, default)
GetOr(field, default) == IF field.given THEN field.text ELSE default

DEFAULT_START_TIME == <<"0","0",":","0","0">>
DEFAULT_END_TIME == <<"2","3",":","5","9">>
T_0800 == <<"0","8",":","0","0">>
T_2200 == <<"2","2",":","0","0">>
T_8pm == <<"8","p","m">>

\* text.split(":")
RECURSIVE SplitColon(_)
SplitColon(t) ==
  IF \A i \in 1..Len(t) : t[i] # ":" THEN <<t>>
  ELSE LET i == CHOOSE j \in 1..Len(t) : t[j] = ":" /\ \A k \in 1..(j - 1) : t[k] # ":"
       IN  <<SubSeq(t, 1, i - 1)>> \o SplitColon(SubSeq(t, i + 1, Len(t)))

\* dt_time(*map(int, text.split(':'))): the time in seconds since midnight, or
\* the exception of a part that is no integer, of a value out of range, or of
\* a fifth part (an integer where tzinfo is expected)
ParseTime(t) ==
  LET parts == SplitColon(t)
      ints == [i \in 1..Len(parts) |-> ParseInt(Strip(parts[i]))]
      at(i) == IF i <= Len(parts) THEN ints[i].val ELSE 0
      ok == /\ Len(parts) <= 4
            /\ \A i \in 1..Len(parts) : ints[i].ok
            /\ at(1) \in 0..23 /\ at(2) \in 0..59 /\ at(3) \in 0..59 /\ at(4) \in 0..999999
  IN  [ok |-> ok, val |-> IF ok THEN (at(1) * 60 + at(2)) * 60 + at(3) ELSE 0]

\* a window whose last minute is counted in full
TimeInWindow_WholeMinute(start_time, end_time, clock) ==
  IF start_time <= end_time
  THEN start_time <= clock /\ clock < end_time + 60
  ELSE clock >= start_time \/ clock < end_time + 60

\* a window that holds every time of day
TimeInWindow_Always(start_time, end_time, clock) == TRUE

\* a window that ends before its last second
TimeInWindow_HalfOpen(start_time, end_time, clock) ==
  IF start_time <= end_time
  THEN start_time <= clock /\ clock < end_time
  ELSE clock >= start_time \/ clock < end_time

\* start_time <= now <= end_time, or the window that spans midnight
TimeInWindow(start_time, end_time, clock) ==
  IF start_time <= end_time
  THEN start_time <= clock /\ clock <= end_time
  ELSE clock >= start_time \/ clock <= end_time

\* TimeWindowChecker.default_start_time / default_end_time
default_start_time == GetOr(setup.start_time, DEFAULT_START_TIME)
default_end_time == GetOr(setup.end_time, DEFAULT_END_TIME)

\* the parsed window of one configuration of the device
WindowOf(config) ==
  [start |-> ParseTime(GetOr(config.start_time, default_start_time)),
   end |-> ParseTime(GetOr(config.end_time, default_end_time))]

\* TimeWindowChecker.async_is_within_time_window
async_is_within_time_window(config, clock) ==
  LET w == WindowOf(config) IN
  IF ~(w.start.ok /\ w.end.ok) THEN TRUE
  ELSE TimeInWindow(w.start.val, w.end.val, clock)

\* TimeWindowChecker.get_current_device_config: the index of the first
\* configuration whose window parses and holds the time, else the first one
get_current_device_config(device_configs, clock) ==
  LET matches(i) == LET w == WindowOf(device_configs[i]) IN
                    /\ w.start.ok /\ w.end.ok
                    /\ TimeInWindow(w.start.val, w.end.val, clock)
  IN  IF \E i \in 1..Len(device_configs) : matches(i)
      THEN [config |-> CHOOSE i \in 1..Len(device_configs) :
                          matches(i) /\ \A k \in 1..(i - 1) : ~matches(k),
            is_in_window |-> TRUE]
      ELSE [config |-> 1, is_in_window |-> FALSE]

\* hass.states.get(entity_id): None, or a state object
NotFound == [found |-> FALSE, state |-> <<>>]
Found(s) == [found |-> TRUE, state |-> s]

S_Off == <<"O","f","f">>
S_Home == <<"H","o","m","e">>
S_armed == <<"a","r","m","e","d">>

\* the states of the device's switch entity and of the global one that a
\* tick can read
HassStates ==
  { [device |-> d, global |-> g] :
      d \in {NotFound, Found(S_Off), Found(S_armed)},
      g \in {NotFound, Found(S_Off), Found(S_Home)} }

\* the standard states compared without lower()
StandardOn_ExactCase(state) ==
  state \in {<<"o","n">>, <<"t","r","u","e">>, <<"h","o","m","e">>, <<"o","p","e","n">>}

\* state.state.lower() in ('on', 'true', 'home', 'open')
StandardOn(state) ==
  Lower(state) \in {<<"o","n">>, <<"t","r","u","e">>, <<"h","o","m","e">>, <<"o","p","e","n">>}

\* a check that enables the device when its own switch entity is not found
async_check_switch_entity_DeviceOnly(config, hs) ==
  IF /\ config.switch_entity_id.given
     /\ config.switch_entity_id.text # <<>>
  THEN IF ~hs.device.found THEN TRUE
       ELSE IF GetOr(config.switch_entity_state, <<>>) # <<>>
       THEN hs.device.state = config.switch_entity_state.text
       ELSE StandardOn(hs.device.state)
  ELSE IF GetOr(setup.switch_entity, <<>>) = <<>> THEN TRUE
  ELSE IF ~hs.global.found THEN TRUE
  ELSE IF GetOr(setup.switch_entity_state, <<>>) # <<>>
       THEN hs.global.state = setup.switch_entity_state.text
       ELSE StandardOn(hs.global.state)

\* SwitchEntityChecker.async_check_switch_entity
async_check_switch_entity(config, hs) ==
  IF /\ config.switch_entity_id.given
     /\ config.switch_entity_id.text # <<>>
     /\ hs.device.found
  THEN IF GetOr(config.switch_entity_state, <<>>) # <<>>
       THEN hs.device.state = config.switch_entity_state.text
       ELSE StandardOn(hs.device.state)
  ELSE IF GetOr(setup.switch_entity, <<>>) = <<>> THEN TRUE
  ELSE IF ~hs.global.found THEN TRUE
  ELSE IF GetOr(setup.switch_entity_state, <<>>) # <<>>
       THEN hs.global.state = setup.switch_entity_state.text
       ELSE StandardOn(hs.global.state)

\* the configurations of the one device ("kitchen" at 10.0.0.1) explored
E_Device == <<"s","w","i","t","c","h",".","k">>
E_Global == <<"s","w","i","t","c","h",".","g">>

DeviceConfig(url, start_time, end_time) ==
  [dashboard_url |-> url, volume |-> NoVolume, start_time |-> start_time,
   end_time |-> end_time, switch_entity_id |-> Unset, switch_entity_state |-> Unset,
   speaker_groups |-> FALSE]

GlobalConfig(device_configs) ==
  [devices |-> device_configs, start_time |-> Unset, end_time |-> Unset,
   switch_entity |-> Unset, switch_entity_state |-> Unset]

\* one dashboard with the default window and no switch
SetupDefault == GlobalConfig(<< DeviceConfig("urlA", Unset, Unset) >>)

\* a day and a night dashboard, under a global switch
SetupDayNight ==
  [GlobalConfig(<< DeviceConfig("urlA", Text(T_0800), Text(T_2200)),
                   DeviceConfig("urlB", Text(T_2200), Text(T_0800)) >>)
     EXCEPT !.switch_entity = Text(E_Global)]

\* one dashboard by day, with a speaker group, under a device switch with a
\* custom state and a global switch with a custom state
SetupDaySwitch ==
  [GlobalConfig(<< [DeviceConfig("urlA", Text(T_0800), Text(T_2200))
                      EXCEPT !.switch_entity_id = Text(E_Device),
                             !.switch_entity_state = Text(S_armed),
                             !.speaker_groups = TRUE] >>)
     EXCEPT !.switch_entity = Text(E_Global), !.switch_entity_state = Text(S_Home)]

\* a start time that does not parse, and a device switch left empty
SetupBadTime ==
  GlobalConfig(<< [DeviceConfig("urlA", Text(T_8pm), Unset)
                     EXCEPT !.switch_entity_id = Text(<<>>)] >>)

Setups == {SetupDefault, SetupDayNight, SetupDaySwitch, SetupBadTime}

\* the times of day at which the clock is read, in seconds since midnight:
\* 08:00:00, 22:00:00, 23:00:00, 23:59:30
Clock == <<28800, 79200, 82800, 86370>>

-----------------------------------------------------------------------------
(* MonitoringLoop: monitoring.py *)

\* the invocations of async_monitor_devices that can overlap: the one of the
\* scan interval, and one created by a switch listener or at start-up
TickTasks == {"interval", "kick"}

DeviceIp == "10.0.0.1"

\* a device_key that is not in active_devices; .get('reconnect_attempts', 0)
\* and .get('last_status_change', 0) give the defaults of an entry without them
NoDevice ==
  [known |-> FALSE, status |-> "unknown", reconnect_attempts |-> 0,
   last_status_change |-> "never"]

\* DeviceManager.update_active_device(device_key, status)
update_active_device(device, status) == [device EXCEPT !.known = TRUE, !.status = status]

\* a reconnect test that does not wait
WaitedEnough_Always(device) == TRUE

\* time_since_last_change > min_time_between_reconnects: last_status_change is
\* "never" (the default 0), "recent" (at most 30 s ago) or "old"
WaitedEnough(device) == device.last_status_change # "recent"

\* a device_name that is not in active_device_configs
NoActiveConfig == [present |-> FALSE, config |-> 1, instance_change |-> FALSE]

\* MonitoringManager.async_update_device_configs, for the one device
async_update_device_configs(active, clock) ==
  LET current_config == get_current_device_config(setup.devices, clock).config IN
  IF active.present
  THEN IF setup.devices[active.config].dashboard_url
            # setup.devices[current_config].dashboard_url
       THEN [present |-> TRUE, config |-> current_config, instance_change |-> TRUE]
       ELSE [active EXCEPT !.instance_change = FALSE]
  ELSE [present |-> TRUE, config |-> current_config, instance_change |-> FALSE]

\* no tick body has run yet.  pos is the await the body is at; the other
\* fields record what this tick has read and done: the entry of the device
\* when the tick began, whether the address was resolved, the result of the
\* switch check, the time of the window check, the first answer of the
\* dashboard probe, the media probe that reported media, the probes and stop
\* commands started in order, the answers of the probes in order, and the
\* commands the cast operation issued; held tells whether the tick before
\* this one found media on a device stored as connected and kept the status;
\* shown tells whether the output of the status probe before a forced reload
\* showed content that is neither the dashboard, nor idle, nor media; failed
\* tells whether the raw status command of the tick timed out, exited
\* non-zero or printed nothing
IdleBody ==
  [pos |-> "none", config |-> 1, instance_change |-> FALSE, prev |-> NoDevice,
   resolved |-> FALSE, gate |-> TRUE, clock |-> 0, is_casting |-> FALSE,
   probed |-> FALSE, media_at |-> "none", log |-> <<>>, answers |-> <<>>,
   issued |-> <<>>, raised |-> FALSE, loop |-> "device", held |-> FALSE,
   shown |-> "none", failed |-> FALSE]

\* the positions at which the body awaits async_cast_dashboard
CastPos == {"sd_cast", "rc_cast"}

\* the body has awaited a probe and has its answer
Answer(yes) == IF yes THEN "yes" ELSE "no"
Heard(answer) == [body EXCEPT !.answers = Append(@, answer)]

\* a lock test that never finds the lock held
LockedCheck_Never(lock) == FALSE

\* self.monitor_lock.locked()
LockedCheck(lock) == lock

\* a stop decision that also goes by the stored classification
StopNeeded_Stored(device, is_casting) == is_casting \/ device.status = "connected"

\* `if is_casting:` after the probe of a device whose casting is disabled or
\* that is outside its windows
StopNeeded(device, is_casting) == is_casting

\* a media decision that always classifies media_playing
MediaStatus_Always(device) == "media_playing"

\* the classification after the media probe of the tick reported media: a
\* device that was connected keeps its status for this cycle
MediaStatus(device) ==
  IF device.known /\ device.status = "connected" THEN device.status ELSE "media_playing"

\* ticks are explored while the reconnect attempts of the device are fewer
\* than MaxReconnects, and from one attempt below the ceiling until
\* MaxReconnects attempts above it
TickAllowed(attempts) ==
  \/ attempts < MaxReconnects
  \/ attempts >= RECONNECT_CEILING - 1 /\ attempts < RECONNECT_CEILING + MaxReconnects

\* a reconnect that never backs off
BackOff_Never(attempts) == FALSE

\* `if attempts > 10:` async_reconnect_device backs off
BackOff(attempts) == attempts > RECONNECT_CEILING

\* `async with self.monitor_lock:` is entered: the configurations are updated
\* and the lookup of the address is awaited
BodyStart(t) ==
  /\ monitor_lock' = TRUE
  /\ task' = [task EXCEPT ![t] = "running"]
  /\ active_device_configs' = async_update_device_configs(active_device_configs, now)
  /\ body' = [IdleBody EXCEPT !.pos = "resolve", !.prev = active_devices,
                              !.held = body.held]
  /\ UNCHANGED <<callVars, setup, now, active_devices>>

\* StatsManager.async_update_health_stats(device_key, event_type)
async_update_health_stats(stats, event_type) ==
  IF event_type = "connection_attempt"
    THEN [stats EXCEPT !.connection_attempts = @ + 1]
  ELSE IF event_type = "connection_success"
    THEN [stats EXCEPT !.successful_connections = @ + 1]
  ELSE IF event_type = "disconnected"
    THEN [stats EXCEPT !.disconnections = @ + 1]
  ELSE IF event_type = "reconnect_attempt"
    THEN [stats EXCEPT !.reconnect_attempts = @ + 1]
  ELSE IF event_type = "reconnect_success"
    THEN [stats EXCEPT !.successful_reconnects = @ + 1]
  ELSE IF event_type = "reconnect_failed"
    THEN [stats EXCEPT !.failed_reconnects = @ + 1]
  ELSE stats

\* if self.stats_manager: await self.stats_manager.async_update_health_stats(...)
\* ("none": the step records nothing)
Recorded(stats, event_type) ==
  IF stats.manager /\ event_type # "none"
  THEN async_update_health_stats(stats, event_type)
  ELSE stats

\* the body has run its last statement for the device: the loop
\* `for device_name in list(self.devices.keys()):` goes on to the devices
\* after it
EndWith(b, device, active, event_type) ==
  /\ body' = [b EXCEPT !.pos = "end", !.loop = "next"]
  /\ active_devices' = device
  /\ active_device_configs' = active
  /\ health_stats' = Recorded(health_stats, event_type)
  /\ UNCHANGED <<device_ip_cache, last_call, unsubscribe_listeners, setup, now,
                 monitor_lock, task>>

End(b, device, active) == EndWith(b, device, active, "none")

\* the body goes on to its next await
GotoWith(b, pos, device, event_type) ==
  /\ body' = [b EXCEPT !.pos = pos]
  /\ active_devices' = device
  /\ health_stats' = Recorded(health_stats, event_type)
  /\ UNCHANGED <<device_ip_cache, last_call, unsubscribe_listeners, setup, now,
                 monitor_lock, task, active_device_configs>>

Goto(b, pos, device) == GotoWith(b, pos, device, "none")

\* the body starts a probe or a stop command and awaits it
Start(b, pos, what, device) == Goto([b EXCEPT !.log = Append(@, what)], pos, device)

\* async_monitor_devices is invoked: it returns at once if the lock is held,
\* else it enters the body; an invocation that found the lock free but taken
\* at `async with` waits for it
Invoke(t) ==
  /\ task[t] \in {"idle", "waiting"}
  /\ task[t] = "waiting" => ~monitor_lock
  /\ TickAllowed(active_devices.reconnect_attempts)
  /\ IF task[t] = "idle" /\ LockedCheck(monitor_lock)
     THEN /\ task' = [task EXCEPT ![t] = "skipped"]
          /\ UNCHANGED <<callVars, setup, now, monitor_lock, body, active_device_configs, active_devices>>
     ELSE IF monitor_lock
     THEN /\ task' = [task EXCEPT ![t] = "waiting"]
          /\ UNCHANGED <<callVars, setup, now, monitor_lock, body, active_device_configs, active_devices>>
     ELSE BodyStart(t)
  /\ UNCHANGED castVars

\* the invocation that returned at once is over
Skipped(t) ==
  /\ task[t] = "skipped"
  /\ task' = [task EXCEPT ![t] = "idle"]
  /\ UNCHANGED <<callVars, setup, now, monitor_lock, body, active_device_configs, active_devices>>
  /\ UNCHANGED castVars

\* the address lookup returns; for a device with an address the switch is
\* checked, then the window, the in-flight marker and the instance change,
\* and the first probe is started
StepResolve(found, hs) ==
  /\ body.pos = "resolve"
  /\ LET config == setup.devices[active_device_configs.config]
         gate == async_check_switch_entity(config, hs)
         is_in_window == get_current_device_config(setup.devices, now).is_in_window
         b == [body EXCEPT !.resolved = found,
                           !.config = active_device_configs.config,
                           !.instance_change = active_device_configs.instance_change,
                           !.gate = gate, !.clock = now]
     IN  IF ~found THEN End(b, active_devices, active_device_configs)
         ELSE IF ~gate THEN Start(b, "gate_probe", "status_probe", active_devices)
         ELSE IF ~is_in_window THEN Start(b, "window_probe", "status_probe", active_devices)
         ELSE IF DeviceIp \in DOMAIN active_casting_operations
         THEN End(b, update_active_device(active_devices, "casting_in_progress"),
                  active_device_configs)
         ELSE IF b.instance_change THEN Start(b, "ic_probe", "status_probe", active_devices)
         ELSE IF config.speaker_groups
         THEN Start(b, "sg_probe", "speaker_probe", active_devices)
         ELSE Start(b, "media_probe", "media_probe", active_devices)
  /\ UNCHANGED castVars

\* casting is disabled: async_check_device_status(ip) returns
StepGateProbe(is_casting) ==
  /\ body.pos = "gate_probe"
  /\ LET b == [Heard(Answer(is_casting)) EXCEPT !.is_casting = is_casting, !.probed = TRUE] IN
     IF StopNeeded(active_devices, is_casting)
     THEN Start(b, "gate_stop", "stop", active_devices)
     ELSE End(b, active_devices, active_device_configs)
  /\ UNCHANGED castVars

\* async_stop_casting(ip) returns, whatever the stop command gave
StepGateStop ==
  /\ body.pos = "gate_stop"
  /\ End(body, update_active_device(active_devices, "stopped"), active_device_configs)
  /\ UNCHANGED castVars

\* outside every window: async_check_device_status(ip) returns
StepWindowProbe(is_casting) ==
  /\ body.pos = "window_probe"
  /\ LET b == [Heard(Answer(is_casting)) EXCEPT !.is_casting = is_casting, !.probed = TRUE] IN
     IF StopNeeded(active_devices, is_casting)
     THEN Start(b, "window_stop", "stop", active_devices)
     ELSE End(b, active_devices, active_device_configs)
  /\ UNCHANGED castVars

\* async_stop_casting(ip) returns, whatever the stop command gave
StepWindowStop ==
  /\ body.pos = "window_stop"
  /\ End(body, update_active_device(active_devices, "stopped"), active_device_configs)
  /\ UNCHANGED castVars

\* the dashboard changed: async_check_device_status(ip) returns; a dashboard
\* that is showing is stopped first, then async_start_device probes for media
StepIcProbe(seen) ==
  /\ body.pos = "ic_probe"
  /\ LET b == [Heard(Answer(seen.is_casting))
                EXCEPT !.is_casting = seen.is_casting, !.probed = TRUE,
                       !.shown = IF seen.raw = "other" THEN "other" ELSE "none"] IN
     IF seen.is_casting
     THEN Start(b, "ic_stop", "stop", active_devices)
     ELSE Start(b, "sd_media", "media_probe", active_devices)
  /\ UNCHANGED castVars

\* async_stop_casting(ip) and asyncio.sleep(2) return
StepIcStop ==
  /\ body.pos = "ic_stop"
  /\ Start(body, "sd_media", "media_probe", active_devices)
  /\ UNCHANGED castVars

\* the task of the tick has tested the marker and goes on towards its call of
\* async_cast_dashboard (it awaits the statistics first)
TowardsCast(b, pos) ==
  /\ GotoWith(b, pos, update_active_device(active_devices, "casting_in_progress"),
              IF pos = "sd_cast" THEN "connection_attempt" ELSE "reconnect_attempt")
  /\ co' = [co EXCEPT !["tick"].pc = "checked", !["tick"].ip = DeviceIp]
  /\ UNCHANGED <<max_retries, active_casting_operations, active_subprocesses, proc>>

\* async_start_device: async_is_media_playing(ip) returns
StepSdMedia(playing) ==
  /\ body.pos = "sd_media"
  /\ LET reset == [active_device_configs EXCEPT !.instance_change = FALSE] IN
     IF playing
     THEN /\ End([Heard(Answer(playing)) EXCEPT !.media_at = "start"],
                 [update_active_device(active_devices, "media_playing")
                    EXCEPT !.reconnect_attempts = 0], reset)
          /\ UNCHANGED castVars
     ELSE IF DeviceIp \in DOMAIN active_casting_operations
     THEN /\ End(Heard(Answer(playing)), update_active_device(active_devices, "casting_in_progress"), reset)
          /\ UNCHANGED castVars
     ELSE TowardsCast(Heard(Answer(playing)), "sd_cast")

\* async_check_speaker_group_state(ip, speaker_groups) returns
StepSgProbe(active) ==
  /\ body.pos = "sg_probe"
  /\ IF active
     THEN End(Heard(Answer(active)), update_active_device(active_devices, "speaker_group_active"),
              active_device_configs)
     ELSE Start(Heard(Answer(active)), "media_probe", "media_probe", active_devices)
  /\ UNCHANGED castVars

\* async_is_media_playing(ip) returns
StepMediaProbe(playing) ==
  /\ body.pos = "media_probe"
  /\ IF playing
     THEN End([Heard(Answer(playing)) EXCEPT !.media_at = "tick"],
              update_active_device(active_devices, MediaStatus(active_devices)),
              active_device_configs)
     ELSE Start(Heard(Answer(playing)), "status_probe", "status_probe", active_devices)
  /\ UNCHANGED castVars

\* async_check_device_status(ip) returns; the raw status command is started
StepStatusProbe(is_casting) ==
  /\ body.pos = "status_probe"
  /\ Start([Heard(Answer(is_casting)) EXCEPT !.is_casting = is_casting, !.probed = TRUE],
           "idle_probe", "raw_status", active_devices)
  /\ UNCHANGED castVars

\* asyncio.create_subprocess_exec of the raw status raises (catt can not be
\* started): no try statement encloses it in async_monitor_devices, so the
\* exception leaves the loop over the devices and the `async with`
StepStatusSpawnRaises ==
  /\ body.pos = "idle_probe"
  /\ body' = [body EXCEPT !.pos = "raised", !.raised = TRUE, !.loop = "left"]
  /\ UNCHANGED <<callVars, setup, now, monitor_lock, task, active_device_configs, active_devices>>
  /\ UNCHANGED castVars

\* a classification that leaves the reconnect attempts as they are
Classified_KeepAttempts(device, is_casting, is_idle) ==
  LET status == IF is_casting THEN "connected"
                ELSE IF is_idle THEN "disconnected" ELSE "other_content"
  IN  IF ~device.known
      THEN [known |-> TRUE, status |-> status, reconnect_attempts |-> 0,
            last_status_change |-> "recent"]
      ELSE IF device.status = status THEN device
      ELSE [device EXCEPT !.status = status, !.last_status_change = "recent"]

\* the status of the device after the probes of the tick
Classified(device, is_casting, is_idle) ==
  LET status == IF is_casting THEN "connected"
                ELSE IF is_idle THEN "disconnected" ELSE "other_content"
  IN  IF ~device.known
      THEN [known |-> TRUE, status |-> status, reconnect_attempts |-> 0,
            last_status_change |-> "recent"]
      ELSE IF device.status = status THEN device
      ELSE [device EXCEPT !.status = status, !.last_status_change = "recent",
                          !.reconnect_attempts = IF is_casting THEN 0 ELSE @]

\* the raw status command of the tick gave no status: it timed out, exited
\* non-zero or printed nothing
ProbeFailed(pr) == pr.timeout \/ pr.rc # 0 \/ pr.out = <<>>

\* the raw status command returns: the device is classified, and an idle
\* device that has been disconnected for long enough is reconnected
StepIdleProbe(seen) ==
  /\ body.pos = "idle_probe"
  /\ LET config == setup.devices[body.config]
         is_idle == seen.is_idle
         heard == [Heard(Answer(seen.is_idle)) EXCEPT !.failed = seen.failed]
         reconnect == /\ active_devices.known /\ ~body.is_casting /\ is_idle
                      /\ active_devices.status = "disconnected"
                      /\ WaitedEnough(active_devices)
     IN  IF ~reconnect
         THEN EndWith(heard, Classified(active_devices, body.is_casting, is_idle),
                      active_device_configs,
                      IF body.is_casting /\ active_devices.known
                           /\ active_devices.status # "connected"
                      THEN "reconnect_success" ELSE "none")
         \* async_reconnect_device
         ELSE IF DeviceIp \in DOMAIN active_casting_operations
         THEN End(heard, update_active_device(active_devices, "casting_in_progress"),
                  active_device_configs)
         ELSE IF ~async_is_within_time_window(config, now)
         THEN End(heard, active_devices, active_device_configs)
         ELSE IF config.speaker_groups
         THEN Start(heard, "rc_sg", "speaker_probe", active_devices)
         ELSE Start(heard, "rc_media", "media_probe", active_devices)
  /\ UNCHANGED castVars

\* async_reconnect_device: async_check_speaker_group_state returns
StepRcSg(active) ==
  /\ body.pos = "rc_sg"
  /\ IF active
     THEN End(Heard(Answer(active)), update_active_device(active_devices, "speaker_group_active"),
              active_device_configs)
     ELSE Start(Heard(Answer(active)), "rc_media", "media_probe", active_devices)
  /\ UNCHANGED castVars

\* async_reconnect_device: async_is_media_playing returns; the attempts are
\* counted and, below the ceiling, the raw status command is started
StepRcMedia(playing) ==
  /\ body.pos = "rc_media"
  /\ LET attempts == active_devices.reconnect_attempts + 1
         counted == [active_devices EXCEPT !.reconnect_attempts = attempts]
     IN  IF playing
         THEN End([Heard(Answer(playing)) EXCEPT !.media_at = "reconnect"],
                  update_active_device(active_devices, "media_playing"),
                  active_device_configs)
         ELSE IF BackOff(attempts)
         THEN EndWith(Heard(Answer(playing)), counted, active_device_configs,
                      "reconnect_failed")
         ELSE Start(Heard(Answer(playing)), "rc_status", "raw_status", counted)
  /\ UNCHANGED castVars

\* a raw status check that lets every output pass
ReconnectStatus_AnyOutput(pr) == IF pr.timeout THEN "timeout" ELSE "idle"

\* what async_reconnect_device makes of its raw status command
ReconnectStatus(pr) ==
  IF pr.timeout THEN "timeout"
  ELSE IF /\ (Len(pr.out) > 2
              \/ ~(\A i \in 1..Len(pr.out) : StartsWith(pr.out[i], <<"V","o","l","u","m","e">>)))
          /\ ~TextContains(pr.out, <<"D","u","m","m","y">>)
          /\ ~TextContains(pr.out, <<"8","1","2","3">>)
       THEN "non_idle"
  ELSE "idle"

\* what the output of the raw status command shows: nothing but volume
\* lines, one of the dashboard's marks, or something else
RawStatus(pr) ==
  IF pr.timeout THEN "timeout"
  ELSE IF IsIdleSignature(pr.out) THEN "idle"
  ELSE IF \/ TextContains(pr.out, <<"D","u","m","m","y">>)
          \/ TextContains(pr.out, <<"8","1","2","3">>)
       THEN "dashboard"
  ELSE "other"

\* async_reconnect_device: the raw status command returns; seen.status is
\* what the function makes of the output and seen.raw what the output shows
StepRcStatus(seen) ==
  /\ body.pos = "rc_status"
  /\ CASE seen.status = "timeout" ->
            /\ End(Heard(seen.raw), active_devices, active_device_configs)
            /\ UNCHANGED castVars
       [] seen.status = "non_idle" ->
            /\ End(Heard(seen.raw), update_active_device(active_devices, "other_content"),
                   active_device_configs)
            /\ UNCHANGED castVars
       [] seen.status = "idle" -> TowardsCast(Heard(seen.raw), "rc_cast")

\* the call of async_cast_dashboard(ip, dashboard_url, device_config)
TickCall ==
  /\ body.pos \in CastPos
  /\ LET config == setup.devices[body.config] IN
     Call("tick", config.dashboard_url, config.volume)

\* async_cast_dashboard has returned to async_start_device or to
\* async_reconnect_device, which records the result; the tick is over
StepCastDone ==
  /\ body.pos \in CastPos
  /\ co["tick"].pc = "returned"
  /\ LET b == [body EXCEPT !.issued = co["tick"].issued,
                           !.media_at = IF co["tick"].outcome = "media_playing"
                                        THEN "cast" ELSE @]
         status == IF co["tick"].result THEN "connected" ELSE "disconnected"
         device == update_active_device(active_devices, status)
     IN  IF body.pos = "sd_cast"
         THEN EndWith(b, [device EXCEPT !.reconnect_attempts = 0],
                      [active_device_configs EXCEPT !.instance_change = FALSE],
                      IF co["tick"].result THEN "connection_success" ELSE "none")
         ELSE EndWith(b, [device EXCEPT !.reconnect_attempts =
                                           IF co["tick"].result THEN 0 ELSE @],
                      active_device_configs,
                      IF co["tick"].result THEN "reconnect_success"
                      ELSE "reconnect_failed")
  /\ co' = [co EXCEPT !["tick"] = IdleCo]
  /\ UNCHANGED <<max_retries, active_casting_operations, active_subprocesses, proc>>

\* `async with self.monitor_lock:` is left: the lock is released and the
\* invocation returns
Release ==
  /\ body.pos \in {"end", "raised"}
  /\ body' = [IdleBody EXCEPT !.held = /\ body.media_at = "tick"
                                        /\ body.prev.known
                                        /\ body.prev.status = "connected"]
  /\ monitor_lock' = FALSE
  /\ task' = [t \in TickTasks |-> IF task[t] = "running" THEN "idle" ELSE task[t]]
  /\ UNCHANGED <<callVars, setup, now, active_device_configs, active_devices>>
  /\ UNCHANGED castVars

\* time of day passes between the ticks and while a tick awaits the address
ClockAdvance ==
  /\ body.pos \in {"none", "resolve"}
  /\ \E i \in 1..Len(Clock) :
        /\ Clock[i] = now
        /\ now' = Clock[(i % Len(Clock)) + 1]
  /\ UNCHANGED <<callVars, setup, monitor_lock, task, body, active_device_configs, active_devices>>
  /\ UNCHANGED castVars

\* more than 30 seconds have passed since the last status change
Settle ==
  /\ body.pos = "none"
  /\ active_devices.last_status_change = "recent"
  /\ active_devices' = [active_devices EXCEPT !.last_status_change = "old"]
  /\ UNCHANGED <<callVars, setup, now, monitor_lock, task, body, active_device_configs>>
  /\ UNCHANGED castVars

\* what the probes of the tick can report, computed from the raw results
SpeakerOutcomes ==
  {~pr.timeout /\ TextContains(pr.out, <<"P","L","A","Y","I","N","G">>) : pr \in ProbeResults}
IdleOutcomes ==
  {[is_idle |-> ~pr.timeout /\ IsIdleSignature(pr.out), failed |-> ProbeFailed(pr)]
     : pr \in ProbeResults}
\* the status probe of a forced reload: the answer of
\* async_check_device_status and what the same output shows (media where
\* async_is_media_playing would report it)
IcOutcomes ==
  {[is_casting |-> async_check_device_status(pr),
    raw |-> IF async_is_media_playing(pr) THEN "media" ELSE RawStatus(pr)] : pr \in ProbeResults}
ReconnectOutcomes ==
  {[status |-> ReconnectStatus(pr), raw |-> RawStatus(pr)] : pr \in ProbeResults}

\* the state before any tick, under the given configuration
\* self.device_ip_cache = {}
EmptyCache == << >>

\* the listeners of start_core: the monitoring interval and the status
\* interval
Subscribed == {"monitor", "status"}

\* MonitoringManager.stats_manager is None: no event is recorded
NoStats ==
  [manager |-> FALSE, connection_attempts |-> 0, successful_connections |-> 0,
   disconnections |-> 0, reconnect_attempts |-> 0, successful_reconnects |-> 0,
   failed_reconnects |-> 0]

\* no function under check has been called
NoCall == [fn |-> "none"]

InitMon(s, clock) ==
  /\ device_ip_cache = EmptyCache
  /\ unsubscribe_listeners = Subscribed
  /\ health_stats = NoStats
  /\ last_call = NoCall
  /\ setup = s
  /\ now = clock
  /\ monitor_lock = FALSE
  /\ task = [t \in TickTasks |-> "idle"]
  /\ body = IdleBody
  /\ active_device_configs = NoActiveConfig
  /\ active_devices = NoDevice

-----------------------------------------------------------------------------
(* SpecCast: the cast executor under two tasks that may call at any time *)

InitCast ==
  /\ max_retries \in 0..MaxRetriesCfg
  /\ active_casting_operations = << >>
  /\ active_subprocesses = << >>
  /\ proc = [c \in Callers |-> "none"]
  /\ co = [c \in Callers |-> IdleCo]
  /\ InitMon(SetupDefault, Clock[1])

\* the status results explored under concurrency: the status command of
\* async_get_current_volume reports volume 50, fails, or times out
VolumeProbes50 == {pr \in ProbeResults : pr.timeout \/ pr.out = <<L_Vol50, L_VolMuted>>}

NextCast ==
  \/ \E c \in Callers, ip \in IPs : Check(c, ip)
  \/ \E c \in Callers : Abandon(c)
  \/ \E c \in Callers : Call(c, "urlA", NoVolume)
  \/ \E c \in Callers : CastStep(c, VolumeProbes50)
  \/ \E c \in Callers : ResumeTakeover(c)
  \/ \E c \in Callers : ResumeCleanup(c)
  \/ \E c \in Callers : Finish(c)
  \/ CancelInit
  \/ AdvanceTime

SpecCast == InitCast /\ [][NextCast]_vars

\* the tasks that are executing the cast sequence for ip
Executing(ip) == {c \in Callers : co[c].pc \in RunningPcs /\ co[c].ip = ip}

\* task c enters async_cast_dashboard in this step
Calls(c) == co[c].pc = "checked" /\ co'[c].pc \notin {"checked", "idle"}

\* task c returns from async_cast_dashboard in this step
Returns(c) == co[c].pc # "returned" /\ co'[c].pc = "returned"

\* C1: in every reachable state at most one cast sequence is executing for
\* any given device address, whichever path started it (initial start, tick,
\* or a call that took over a stuck operation)
C1_AtMostOneCastPerAddress == \A ip \in IPs : Cardinality(Executing(ip)) <= 1

\* a state in which a call has taken over a stuck operation whose task is
\* still executing the sequence for the same address
C1_TakeoverWithLiveStaleTask ==
  \E ip \in IPs : /\ Executing(ip) = Callers
                   /\ ip \in DOMAIN active_casting_operations
                   /\ active_casting_operations[ip].age = 0

C3_ReleasedOnReturn ==
  [][\A c \in Callers :
       (Returns(c) /\ co'[c].outcome \in {"success", "exhausted", "media_playing"})
       => (/\ co'[c].ip \notin DOMAIN active_casting_operations'
           /\ KeysOf(active_subprocesses', co'[c].ip) = <<>>)]_vars

\* a call returns successfully while the other task executes for the same address
C3_ReturnBesideOtherTask ==
  /\ co["init"].pc = "returned" /\ co["init"].outcome = "success"
  /\ "tick" \in Executing(co["init"].ip)

-----------------------------------------------------------------------------
(* SpecOne: one task casting, over every configured and reported volume *)

\* the values of config['max_retries'] explored: absent (the default), or 0..MaxRetriesCfg
MaxRetriesChoices == {DEFAULT_MAX_RETRIES} \cup 0..MaxRetriesCfg

\* the values of a device's 'volume' explored
VolumeChoices == {NoVolume} \cup {Volume(n) : n \in (0 - 1)..MaxCfgVolume}

InitOne ==
  /\ max_retries \in MaxRetriesChoices
  /\ active_casting_operations = << >>
  /\ active_subprocesses = << >>
  /\ proc = [c \in Callers |-> "none"]
  /\ co = [c \in Callers |-> IdleCo]
  /\ InitMon(SetupDefault, Clock[1])

NextOne ==
  \/ Check("tick", "10.0.0.1")
  \/ Abandon("tick")
  \/ \E url \in Urls, volume \in VolumeChoices : Call("tick", url, volume)
  \/ CastStep("tick", ProbeResults)
  \/ Finish("tick")
  \/ AdvanceTime

SpecOne == InitOne /\ [][NextOne]_vars

\* C4: a call makes at most max_retries attempts (5 when not configured): the
\* attempt index stays below max_retries; a new attempt starts only from the
\* wait that follows a failed attempt, and that wait lasts retry_delay, which
\* starts at DEFAULT_RETRY_DELAY and has grown by 1.5 per earlier wait; the
\* failure of attempt number max_retries makes the call return failure, and
\* a call that has returned makes no further attempt
C4_AtMostMaxRetriesAttempts ==
  [][\A c \in Callers :
       /\ co'[c].pc \in RunningPcs => co'[c].attempt < max_retries
       /\ (co[c].pc \in RunningPcs /\ co'[c].pc \in RunningPcs
              /\ co'[c].attempt # co[c].attempt)
          => (/\ co[c].pc = "retry_sleep" /\ co'[c].pc = "media"
              /\ co'[c].attempt = co[c].attempt + 1)
       /\ co'[c].pc = "retry_sleep"
          => (/\ co'[c].attempt + 1 < max_retries
              /\ co'[c].retry_delay.num = DEFAULT_RETRY_DELAY * 3 ^ co'[c].attempt
              /\ co'[c].retry_delay.den = 2 ^ co'[c].attempt)
       /\ (Returns(c) /\ co'[c].outcome = "exhausted")
          => (~co'[c].result /\ (max_retries = 0 \/ co'[c].attempt + 1 = max_retries))
       /\ co[c].pc = "returned" => co'[c].pc \in {"returned", "idle"}]_vars

\* the default number of attempts has been made and the call has returned failure
C4_DefaultRetriesExhausted ==
  /\ max_retries = DEFAULT_MAX_RETRIES
  /\ co["tick"].pc = "returned" /\ co["tick"].outcome = "exhausted"
  /\ co["tick"].attempt = 4 /\ co["tick"].retry_delay = [num |-> 810, den |-> 16]

\* C5: an attempt succeeds if and only if the cast command exited zero and the
\* verification probe reported the dashboard or the cast output held
\* "Casting" and "on"; every other attempt that ran the cast sequence failed
C5_SuccessIffCastAndVerified ==
  \A c \in Callers :
    LET good == /\ co[c].cast_exit = "zero"
                /\ (co[c].status_check \/ co[c].cast_likely_succeeded)
        succeeded == \/ co[c].pc = "vol_final"
                     \/ co[c].pc = "returned" /\ co[c].outcome = "success" /\ co[c].result
        failed == \/ co[c].pc = "retry_sleep"
                  \/ co[c].pc = "returned" /\ co[c].outcome = "exhausted" /\ max_retries > 0
    IN  /\ succeeded => good
        /\ failed => ~good
        /\ (co[c].pc = "returned" /\ co[c].cast_exit # "none") => (succeeded \/ failed)

\* an attempt has succeeded on the text of the cast output, the probe saying no
C5_SucceededOnOutputAlone ==
  /\ co["tick"].pc = "returned" /\ co["tick"].result
  /\ ~co["tick"].status_check /\ co["tick"].cast_likely_succeeded

\* C6: the final volume is the configured volume times 10 when one is
\* configured, otherwise the number on the "Volume:" line of the status read
\* before the cast, and 50 when that line is missing or holds no number or
\* the status command failed; values below 0 or above 100 are applied as 0
\* and 100, so the applied volume is always in 0..100
C6_FinalVolumeApplied ==
  [][\A c \in Callers :
       (co[c].pc = "verify" /\ co'[c].pc = "vol_final") =>
         LET cfg == co[c].config_volume
             st == co[c].volume_status
             has(line) == st.ok /\ \E i \in 1..Len(st.out) : st.out[i] = line
             before == IF has(L_Vol50) THEN 50
                       ELSE IF has(L_Vol0) THEN 0
                       ELSE IF has(L_Vol150) THEN 150
                       ELSE IF has(L_VolNeg) THEN 0 - 5
                       ELSE 50
             wanted == IF cfg.given THEN cfg.v * 10 ELSE before
             applied == co'[c].final_volume
         IN  /\ applied \in 0..100
             /\ wanted \in 0..100 => applied = wanted
             /\ wanted < 0 => applied = 0
             /\ wanted > 100 => applied = 100]_vars

\* the volume read before the cast, 150, is applied as 100
C6_ReadVolumeClamped ==
  /\ co["tick"].pc = "vol_final" /\ ~co["tick"].config_volume.given
  /\ co["tick"].current_volume = 150 /\ co["tick"].final_volume = 100

-----------------------------------------------------------------------------
(* Spec: the reconciliation tick of one device, the only caller of the cast *)

Init ==
  /\ max_retries = MaxRetriesCfg
  /\ active_casting_operations = << >>
  /\ active_subprocesses = << >>
  /\ proc = [c \in Callers |-> "none"]
  /\ co = [c \in Callers |-> IdleCo]
  /\ \E s \in Setups, i \in 1..Len(Clock) : InitMon(s, Clock[i])

Next ==
  \/ \E t \in TickTasks : Invoke(t)
  \/ \E t \in TickTasks : Skipped(t)
  \/ \E found \in BOOLEAN, hs \in HassStates : StepResolve(found, hs)
  \/ \E is_casting \in DashboardOutcomes : StepGateProbe(is_casting)
  \/ StepGateStop
  \/ \E is_casting \in DashboardOutcomes : StepWindowProbe(is_casting)
  \/ StepWindowStop
  \/ \E seen \in IcOutcomes : StepIcProbe(seen)
  \/ StepIcStop
  \/ \E playing \in MediaOutcomes : StepSdMedia(playing)
  \/ \E active \in SpeakerOutcomes : StepSgProbe(active)
  \/ \E playing \in MediaOutcomes : StepMediaProbe(playing)
  \/ \E is_casting \in DashboardOutcomes : StepStatusProbe(is_casting)
  \/ \E seen \in IdleOutcomes : StepIdleProbe(seen)
  \/ StepStatusSpawnRaises
  \/ \E active \in SpeakerOutcomes : StepRcSg(active)
  \/ \E playing \in MediaOutcomes : StepRcMedia(playing)
  \/ \E seen \in ReconnectOutcomes : StepRcStatus(seen)
  \/ TickCall
  \/ CastStep("tick", {pr \in VolumeProbes50 : ~pr.timeout})
  \/ StepCastDone
  \/ Release
  \/ ClockAdvance
  \/ Settle

Spec == Init /\ [][Next]_vars

\* the tick tasks that are executing the body
Running == {t \in TickTasks : task[t] = "running"}

\* C7: at most one tick body executes at any time, and only under the lock;
\* an invocation made while the lock is held returns at once: it runs no
\* check, issues no command, changes no device state, leaves the running
\* tick as it is, and never enters the body or waits for the lock later
C7_OneTickBodyAtATime ==
  [][/\ Cardinality(Running') <= 1
     /\ Running' # {} => monitor_lock'
     /\ \A t \in TickTasks :
          /\ task'[t] # "waiting"
          /\ (task[t] = "idle" /\ task'[t] # "idle" /\ monitor_lock)
             => (/\ task'[t] = "skipped"
                 /\ \A u \in TickTasks \ {t} : task'[u] = task[u]
                 /\ UNCHANGED <<castVars, callVars, setup, now, monitor_lock, body,
                                active_device_configs, active_devices>>)
          /\ task[t] = "skipped" => task'[t] \in {"skipped", "idle"}]_vars

\* an invocation has returned at once while the tick of the interval awaits
\* its stop command
C7_SkippedDuringTick ==
  /\ task["kick"] = "skipped" /\ task["interval"] = "running"
  /\ monitor_lock /\ body.pos = "gate_stop"

\* the stop commands the tick has started
Stops == {i \in 1..Len(body.log) : body.log[i] = "stop"}

\* C8 (as written): when a tick finds the switch off for a device whose
\* stored classification is connected, a stop command is issued and the
\* classification becomes stopped
C8_StopsWhenPreviouslyConnected ==
  (body.pos = "end" /\ body.resolved /\ ~body.gate /\ body.prev.status = "connected")
  => (Stops # {} /\ active_devices.status = "stopped")

\* C8 (amended): when a tick finds the switch off for a device, it probes the
\* device once; if the probe reports the dashboard, one stop command is issued
\* and the classification becomes stopped; if it does not, no stop command is
\* issued and the entry of the device stays as it was; nothing else is checked
C8_StopsWhenProbeReportsDashboard ==
  (body.pos = "end" /\ body.resolved /\ ~body.gate)
  => /\ body.probed /\ body.issued = <<>>
     /\ IF body.is_casting
        THEN /\ body.log = <<"status_probe", "stop">>
             /\ active_devices = [body.prev EXCEPT !.known = TRUE, !.status = "stopped"]
        ELSE /\ body.log = <<"status_probe">>
             /\ active_devices = body.prev

\* the switch is off, the device was connected and still shows the dashboard:
\* it has been stopped
C8_ConnectedDeviceStopped ==
  /\ body.pos = "end" /\ body.resolved /\ ~body.gate
  /\ body.prev.status = "connected" /\ body.is_casting
  /\ Stops # {} /\ active_devices.status = "stopped"

\* the tick found the time of day outside every window of the device: after
\* the last minute of the default window 00:00-23:59, or at night for the
\* device whose one window is 08:00-22:00
OutsideEveryWindow ==
  \/ setup = SetupDefault /\ body.clock > 86340
  \/ setup = SetupDaySwitch /\ (body.clock < 28800 \/ body.clock > 79200)

\* C9: when a tick finds the device enabled and outside every one of its
\* windows, its first check is the dashboard probe, and if that reports the
\* dashboard the tick issues one stop command, marks the device stopped and
\* makes no further check and no cast for the device
C9_StopsOutsideWindows ==
  (body.pos = "end" /\ body.resolved /\ body.gate /\ OutsideEveryWindow)
  => /\ body.probed /\ Len(body.log) >= 1 /\ body.log[1] = "status_probe"
     /\ body.issued = <<>>
     /\ body.is_casting => (/\ body.log = <<"status_probe", "stop">>
                            /\ active_devices.status = "stopped")

\* half a minute before midnight the device with the default window shows
\* the dashboard: it has been stopped
C9_StoppedAfterDefaultWindow ==
  /\ body.pos = "end" /\ body.resolved /\ body.gate
  /\ setup = SetupDefault /\ body.clock = 86370
  /\ body.is_casting /\ body.log = <<"status_probe", "stop">>
  /\ active_devices.status = "stopped"

\* C10 (as written): in a tick in which a media probe reported media, the
\* device is classified media_playing and no cast command was issued
C10_MediaMeansMediaPlaying ==
  (body.pos = "end" /\ body.media_at # "none")
  => (active_devices.status = "media_playing" /\ body.issued = <<>>)

\* C10 (amended): when a media probe reports media in a tick, the tick ends
\* with no command issued after the report; the device is classified
\* media_playing, except that a device stored as connected keeps that status
\* when the probe of the tick itself reported, and that the caller records
\* disconnected when the probe inside the cast operation reported
C10_MediaHoldsOffCast ==
  (body.pos = "end" /\ body.media_at # "none")
  => /\ body.issued = <<>>
     /\ body.log[Len(body.log)] \in {"media_probe", "raw_status"}
     /\ body.media_at \in {"tick", "start", "reconnect"}
          => body.log[Len(body.log)] = "media_probe"
     /\ active_devices.status =
          CASE body.media_at = "tick" ->
                 IF body.prev.status = "connected" THEN "connected" ELSE "media_playing"
            [] body.media_at \in {"start", "reconnect"} -> "media_playing"
            [] body.media_at = "cast" -> "disconnected"

\* media was reported for a device stored as connected: it is still connected
C10_ConnectedKeptDuringMedia ==
  /\ body.pos = "end" /\ body.media_at = "tick"
  /\ body.prev.status = "connected" /\ active_devices.status = "connected"

\* the tick goes on to the cast of async_reconnect_device in this step
ReconnectCast == body.pos # "rc_cast" /\ body'.pos = "rc_cast"

\* C11: every step in which the classification of the device becomes
\* disconnected from another classification records the time of the change,
\* and a reconnection cast is begun only when more than the stabilization
\* interval has passed since the recorded change
C11_DisconnectedStartsHysteresis ==
  [][/\ (active_devices.status # "disconnected" /\ active_devices'.status = "disconnected")
        => active_devices'.last_status_change = "recent"
     /\ ReconnectCast => active_devices.last_status_change # "recent"]_vars

\* a reconnection cast is under way for a device that became disconnected by
\* a failed start and has no time of change recorded
C11_ReconnectAfterFailedStart ==
  /\ body.pos = "rc_cast"
  /\ body.prev.status = "disconnected" /\ body.prev.last_status_change = "never"

\* the tick found no speaker group and no media playing, the dashboard not
\* showing and the raw status idle, and ended with the classification
SawIdle ==
  \/ /\ body.log = <<"media_probe", "status_probe", "raw_status">>
     /\ body.answers = <<"no", "no", "yes">>
  \/ /\ body.log = <<"speaker_probe", "media_probe", "status_probe", "raw_status">>
     /\ body.answers = <<"no", "no", "no", "yes">>

\* the tick found the same, went on to async_reconnect_device, found the same
\* again and called the cast
SawIdleAndReconnected ==
  \/ /\ body.log = <<"media_probe", "status_probe", "raw_status", "media_probe", "raw_status">>
     /\ body.answers = <<"no", "no", "yes", "no", "idle">>
  \/ /\ body.log = <<"speaker_probe", "media_probe", "status_probe", "raw_status",
                     "speaker_probe", "media_probe", "raw_status">>
     /\ body.answers = <<"no", "no", "no", "yes", "no", "no", "idle">>

\* C12: for a device with an address, enabled and inside a window, that every
\* probe reports idle: the first tick classifies it disconnected, records the
\* time and attempts no cast; a tick within the stabilization interval leaves
\* it as it is; a tick after the interval, inside the window of the active
\* configuration, calls the cast, and when the cast succeeds the device is
\* classified connected
C12_IdleDeviceReconnectsAfterInterval ==
  body.pos = "end" =>
    /\ (SawIdle /\ ~body.prev.known)
       => (/\ active_devices.status = "disconnected"
           /\ active_devices.last_status_change = "recent"
           /\ body.issued = <<>>)
    /\ (SawIdle /\ body.prev.status = "disconnected" /\ body.prev.last_status_change = "recent")
       => (active_devices = body.prev /\ body.issued = <<>>)
    /\ (SawIdle /\ body.prev.status = "disconnected" /\ body.prev.last_status_change # "recent")
       => ~async_is_within_time_window(setup.devices[body.config], now)
    /\ (SawIdleAndReconnected /\ body.prev.status = "disconnected")
       => (/\ body.prev.last_status_change # "recent"
           /\ body.media_at = "cast" \/ body.issued # <<>>
           /\ (body.issued # <<>> /\ body.issued[Len(body.issued)] = "vol_final")
              => active_devices.status = "connected")

\* the idle device was disconnected for longer than the interval and the cast
\* of this tick succeeded: it is connected
C12_ReconnectedAfterInterval ==
  /\ body.pos = "end" /\ SawIdleAndReconnected
  /\ body.prev.status = "disconnected" /\ body.prev.last_status_change = "old"
  /\ body.issued # <<>> /\ body.issued[Len(body.issued)] = "vol_final"
  /\ active_devices.status = "connected"

-----------------------------------------------------------------------------
(* SpecBackoff: the tick of a device that has failed to reconnect nine times *)

\* one dashboard with the default window; the device is disconnected, its
\* ninth reconnect has failed, and its last status change is long ago
InitBackoff ==
  /\ max_retries = MaxRetriesCfg
  /\ active_casting_operations = << >>
  /\ active_subprocesses = << >>
  /\ proc = [c \in Callers |-> "none"]
  /\ co = [c \in Callers |-> IdleCo]
  /\ device_ip_cache = EmptyCache
  /\ unsubscribe_listeners = Subscribed
  /\ health_stats = NoStats
  /\ last_call = NoCall
  /\ setup = SetupDefault
  /\ now = Clock[1]
  /\ monitor_lock = FALSE
  /\ task = [t \in TickTasks |-> "idle"]
  /\ body = IdleBody
  /\ active_device_configs = [present |-> TRUE, config |-> 1, instance_change |-> FALSE]
  /\ active_devices = [known |-> TRUE, status |-> "disconnected",
                       reconnect_attempts |-> RECONNECT_CEILING - 1,
                       last_status_change |-> "old"]

\* the steps a tick can take under this configuration
NextBackoff ==
  \/ \E t \in TickTasks : Invoke(t)
  \/ \E t \in TickTasks : Skipped(t)
  \/ \E found \in BOOLEAN, hs \in HassStates : StepResolve(found, hs)
  \/ \E is_casting \in DashboardOutcomes : StepWindowProbe(is_casting)
  \/ StepWindowStop
  \/ \E playing \in MediaOutcomes : StepMediaProbe(playing)
  \/ \E is_casting \in DashboardOutcomes : StepStatusProbe(is_casting)
  \/ \E seen \in IdleOutcomes : StepIdleProbe(seen)
  \/ StepStatusSpawnRaises
  \/ \E playing \in MediaOutcomes : StepRcMedia(playing)
  \/ \E seen \in ReconnectOutcomes : StepRcStatus(seen)
  \/ TickCall
  \/ CastStep("tick", {pr \in VolumeProbes50 : ~pr.timeout})
  \/ StepCastDone
  \/ Release
  \/ ClockAdvance
  \/ Settle

SpecBackoff == InitBackoff /\ [][NextBackoff]_vars

\* C14: while the reconnect-attempt counter of the device exceeds 10, no
\* reconnection goes on to the cast; the counter falls back to 10 or less
\* only in a step before or after which the device is not disconnected
C14_NoCastAboveCeiling ==
  [][/\ ReconnectCast => active_devices'.reconnect_attempts <= 10
     /\ (active_devices.reconnect_attempts > 10 /\ active_devices'.reconnect_attempts <= 10)
        => (active_devices.status # "disconnected" \/ active_devices'.status # "disconnected")]_vars

\* the eleventh reconnect of an idle device has been counted and has ended
\* before the raw status and the cast
C14_BackedOff ==
  /\ body.pos = "end" /\ active_devices.reconnect_attempts = 11
  /\ body.log = <<"media_probe", "status_probe", "raw_status", "media_probe">>
  /\ body.answers = <<"no", "no", "yes", "no">>
  /\ active_devices.status = "disconnected"

-----------------------------------------------------------------------------
(* DeviceLocator: DeviceManager.async_get_device_ip (device.py) *)

\* a cached address is used while it is younger than 300 seconds
CACHE_SECONDS == 300
\* the seconds that pass in one step of the clock of the cache
ElapseStep == 150

\* the names and addresses a device is configured by
X_Ip == <<"1","0",".","0",".","0",".","1">>
X_Ip2 == <<"1","9","2",".","1","6","8",".","1",".","1","0">>
X_IpBig == <<"9","9","9",".","1",".","1",".","1">>
X_IpNewline == <<"1","0",".","0",".","0",".","1","\n">>
X_Three == <<"1","0",".","0",".","1">>
X_Five == <<"1",".","2",".","3",".","4",".","5">>
X_Long == <<"1","2","3","4",".","1",".","1",".","1">>
X_Kitchen == <<"K","i","t","c","h","e","n">>
X_kitchen == <<"k","i","t","c","h","e","n">>
X_Den == <<"D","e","n">>
X_Attic == <<"A","t","t","i","c">>
NameInputs ==
  {X_Ip, X_Ip2, X_IpBig, X_IpNewline, X_Three, X_Five,
   X_Long, X_Kitchen, X_kitchen, X_Den, X_Attic}

\* lines of the stdout of `catt scan`
S_Header == <<"S","c","a","n","n","i","n","g"," ","C","h","r","o","m","e","c","a","s","t","s",".",".",".">>
S_Kitchen == <<"1","0",".","0",".","0",".","1"," ","-"," ","K","i","t","c","h","e","n"," ","-"," ","N","e","s","t"," ","H","u","b">>
S_Den == <<"1","0",".","0",".","0",".","2"," ","-"," ","D","e","n"," ","-"," ","C","h","r","o","m","e","c","a","s","t">>
S_Junk == <<"N","o"," ","d","e","v","i","c","e","s"," ","f","o","u","n","d">>
S_Blank == <<" "," ">>

\* stdout of `catt scan`, split into lines
ScanTexts ==
  { <<S_Header, S_Kitchen, S_Den>>,
    <<S_Header, S_Den, S_Kitchen>>,
    <<S_Header, S_Den>>,
    <<S_Header, S_Blank, S_Junk>> }

\* what the scan gave: create_subprocess_exec raised, the 15 seconds passed,
\* or the process exited with rc and out
ScanResults ==
  { [raised |-> TRUE, timeout |-> FALSE, rc |-> 0, out |-> <<>>],
    [raised |-> FALSE, timeout |-> TRUE, rc |-> 0, out |-> <<>>],
    [raised |-> FALSE, timeout |-> FALSE, rc |-> 1, out |-> <<>>] }
  \cup { [raised |-> FALSE, timeout |-> FALSE, rc |-> 0, out |-> t] : t \in ScanTexts }

\* text.split(sep)
RECURSIVE Split(_, _)
Split(t, sep) ==
  LET at(k) == \A i \in 1..Len(sep) : t[k + i] = sep[i]
      hits == {k \in 0..(Len(t) - Len(sep)) : at(k)}
  IN  IF hits = {} THEN <<t>>
      ELSE LET k == CHOOSE h \in hits : \A g \in hits : h <= g
           IN  <<SubSeq(t, 1, k)>> \o Split(SubSeq(t, k + Len(sep) + 1, Len(t)), sep)

\* a pattern that matches no text
IP_PATTERN_match_Never(x) == FALSE

\* IP_PATTERN.match(x) for ^(\d{1,3}\.){3}\d{1,3}$: four groups of one to
\* three digits with dots between, `$` also matching before a last newline
IP_PATTERN_match(x) ==
  LET t == IF Len(x) > 0 /\ x[Len(x)] = "\n" THEN SubSeq(x, 1, Len(x) - 1) ELSE x
      parts == Split(t, <<".">>)
  IN  /\ Len(parts) = 4
      /\ \A i \in 1..Len(parts) :
            /\ Len(parts[i]) \in 1..3
            /\ \A j \in 1..Len(parts[i]) : IsDigit(parts[i][j])

\* return None / return ip
NoIp == [found |-> FALSE, ip |-> <<>>]
Ip(a) == [found |-> TRUE, ip |-> a]

\* name in cache and cache[name]['timestamp'] > (time.time() - 300)
FreshEntry(cache, x) == x \in DOMAIN cache /\ cache[x].age < CACHE_SECONDS

\* a scan that finds the device whatever the lines say
ScanLines_AnyDevice(lines, x, cache) == [result |-> Ip(X_Ip), cache |-> cache]

\* `for line in scan_output.splitlines():` every device found is cached until
\* the name that matches without regard to case is found and its ip returned
RECURSIVE ScanLines(_, _, _)
ScanLines(lines, x, cache) ==
  IF lines = <<>> THEN [result |-> NoIp, cache |-> cache]
  ELSE LET line == Head(lines)
           parts == Split(line, <<" ", "-", " ">>)
       IN  IF Contains(line, S_Header) \/ Strip(line) = <<>>
           THEN ScanLines(Tail(lines), x, cache)
           ELSE IF Len(parts) < 2 THEN ScanLines(Tail(lines), x, cache)
           ELSE LET ip == Strip(parts[1])
                    found_name == Strip(parts[2])
                    cached == Put(cache, found_name, [ip |-> ip, age |-> 0])
                IN  IF Lower(found_name) = Lower(x)
                    THEN [result |-> Ip(ip), cache |-> cached]
                    ELSE ScanLines(Tail(lines), x, cached)

\* async_get_device_ip(device_name_or_ip): what it returns, whether it read
\* the cache, whether it ran the scan, and the cache it leaves
async_get_device_ip(x, cache, scan) ==
  IF IP_PATTERN_match(x)
  THEN [result |-> Ip(x), cache_read |-> FALSE, scanned |-> FALSE, cache |-> cache]
  ELSE IF FreshEntry(cache, x)
  THEN [result |-> Ip(cache[x].ip), cache_read |-> TRUE, scanned |-> FALSE, cache |-> cache]
  ELSE IF scan.raised \/ scan.timeout \/ scan.rc # 0
  THEN [result |-> NoIp, cache_read |-> TRUE, scanned |-> TRUE, cache |-> cache]
  ELSE LET r == ScanLines(scan.out, x, cache)
       IN  [result |-> r.result, cache_read |-> TRUE, scanned |-> TRUE, cache |-> r.cache]

\* the variables of the cast executor and of the tick
engineVars ==
  <<castVars, setup, now, monitor_lock, task, body, active_device_configs, active_devices>>

\* a call of async_get_device_ip(x) whose scan, if it runs one, gives scan;
\* seq tells a call from the call before it
Resolve(x, scan) ==
  LET r == async_get_device_ip(x, device_ip_cache, scan)
  IN  /\ last_call' = [fn |-> "async_get_device_ip", x |-> x, result |-> r.result,
                      cache_read |-> r.cache_read, scanned |-> r.scanned,
                      seq |-> IF last_call.fn = "async_get_device_ip"
                              THEN 1 - last_call.seq ELSE 0]
      /\ device_ip_cache' = r.cache
      /\ UNCHANGED <<unsubscribe_listeners, health_stats, engineVars>>

\* ElapseStep seconds pass; an entry that is no longer fresh stays so
Elapse ==
  /\ \E n \in DOMAIN device_ip_cache : device_ip_cache[n].age < CACHE_SECONDS
  /\ device_ip_cache' =
       [n \in DOMAIN device_ip_cache |->
          [device_ip_cache[n] EXCEPT !.age = IF @ >= CACHE_SECONDS THEN @ ELSE @ + ElapseStep]]
  /\ UNCHANGED <<last_call, unsubscribe_listeners, health_stats, engineVars>>

InitResolve ==
  /\ max_retries = MaxRetriesCfg
  /\ active_casting_operations = << >>
  /\ active_subprocesses = << >>
  /\ proc = [c \in Callers |-> "none"]
  /\ co = [c \in Callers |-> IdleCo]
  /\ InitMon(SetupDefault, Clock[1])

NextResolve ==
  \/ \E x \in NameInputs, scan \in ScanResults : Resolve(x, scan)
  \/ Elapse

SpecResolve == InitResolve /\ [][NextResolve]_vars

\* the inputs that are IPv4 addresses in dotted decimal notation
AddressInputs == {X_Ip, X_Ip2}

\* C15: a call of async_get_device_ip with an IPv4 address returns that
\* address as it was given, without reading the cache and without a scan
C15_AddressReturnedUnchanged ==
  (last_call.fn = "async_get_device_ip" /\ last_call.x \in AddressInputs)
    => /\ last_call.result = Ip(last_call.x)
       /\ ~last_call.cache_read
       /\ ~last_call.scanned

\* an address has been resolved while the cache held the devices of a scan
C15_AddressResolved ==
  /\ last_call.fn = "async_get_device_ip" /\ last_call.x = X_Ip2
  /\ last_call.result = Ip(X_Ip2)
  /\ X_Kitchen \in DOMAIN device_ip_cache

-----------------------------------------------------------------------------
(* SpecWindow: the two time window functions of utils.py applied to the    *)
(* configurations of a device at a time of day                             *)

T_1200 == <<"1","2",":","0","0">>
T_1300 == <<"1","3",":","0","0">>

\* one window by day, and one that spans midnight
SetupDay == GlobalConfig(<< DeviceConfig("urlA", Text(T_0800), Text(T_2200)) >>)
SetupNight == GlobalConfig(<< DeviceConfig("urlB", Text(T_2200), Text(T_0800)) >>)

\* a window by day and a second one inside it
SetupOverlap ==
  GlobalConfig(<< DeviceConfig("urlA", Text(T_0800), Text(T_2200)),
                  DeviceConfig("urlB", Text(T_1200), Text(T_1300)) >>)

\* two windows with the hour after noon between them
SetupGap ==
  GlobalConfig(<< DeviceConfig("urlA", Text(T_0800), Text(T_1200)),
                  DeviceConfig("urlB", Text(T_1300), Text(T_2200)) >>)

\* a first window whose start does not parse, and a second one by day
SetupBadFirst ==
  GlobalConfig(<< DeviceConfig("urlA", Text(T_8pm), Text(T_2200)),
                  DeviceConfig("urlB", Text(T_0800), Text(T_2200)) >>)

WindowSetups ==
  {SetupDefault, SetupDay, SetupNight, SetupDayNight, SetupOverlap, SetupGap,
   SetupBadTime, SetupBadFirst}

\* dt_util.now().time() in seconds since midnight: 00:00:00, 07:59:59,
\* 08:00:00, 08:00:01, 12:30:00, 22:00:00, 22:00:01, 23:59:59
WindowTimes == {0, 28799, 28800, 28801, 45000, 79200, 79201, 86399}

\* get_current_device_config(device_name, self.devices[device_name]) and
\* async_is_within_time_window(device_name, config) for each configuration of
\* the device, at the same time of day
CheckWindows ==
  /\ last_call' =
       [fn |-> "time_window", clock |-> now,
        active |-> get_current_device_config(setup.devices, now),
        within |-> [i \in 1..Len(setup.devices) |->
                      async_is_within_time_window(setup.devices[i], now)]]
  /\ UNCHANGED <<device_ip_cache, unsubscribe_listeners, health_stats, engineVars>>

\* the time of day becomes t
ClockTo(t) ==
  /\ t # now
  /\ now' = t
  /\ UNCHANGED <<castVars, callVars, setup, monitor_lock, task, body,
                 active_device_configs, active_devices>>

InitWindow ==
  /\ max_retries = MaxRetriesCfg
  /\ active_casting_operations = << >>
  /\ active_subprocesses = << >>
  /\ proc = [c \in Callers |-> "none"]
  /\ co = [c \in Callers |-> IdleCo]
  /\ \E s \in WindowSetups, t \in WindowTimes : InitMon(s, t)

NextWindow ==
  \/ CheckWindows
  \/ \E t \in WindowTimes : ClockTo(t)

SpecWindow == InitWindow /\ [][NextWindow]_vars

\* the configurations whose window parses and holds the time of the last call
Matching ==
  {i \in 1..Len(setup.devices) :
     LET w == WindowOf(setup.devices[i]) IN
     /\ w.start.ok /\ w.end.ok
     /\ IF w.start.val <= w.end.val
        THEN w.start.val <= last_call.clock /\ last_call.clock <= w.end.val
        ELSE last_call.clock >= w.start.val \/ last_call.clock <= w.end.val}

\* C16: when one window holds the time, get_current_device_config returns
\* it with is_in_window true; when several do, it returns the last of them
\* in the order of the list
C16_LastMatchingWindowWins ==
  (last_call.fn = "time_window" /\ Matching # {})
    => last_call.active =
         [config |-> CHOOSE i \in Matching : \A k \in Matching : k <= i,
          is_in_window |-> TRUE]

\* at 12:30 both windows of the overlapping pair hold the time and the first
\* one has been returned
C16_FirstOfTwoReturned ==
  /\ last_call.fn = "time_window" /\ setup = SetupOverlap /\ last_call.clock = 45000
  /\ Matching = {1, 2}
  /\ last_call.active = [config |-> 1, is_in_window |-> TRUE]

\* the two window functions were last called under the configuration s
CalledWith(s) == last_call.fn = "time_window" /\ setup = s

\* C17: a window with start <= end holds the time iff start <= now <= end,
\* a window with end < start holds it iff now >= start or now <= end, both
\* ends included, and get_current_device_config and
\* async_is_within_time_window give the same answer for the same window
C17_InclusiveWindowRule ==
  /\ CalledWith(SetupDay)
       => /\ last_call.within[1] <=> (28800 <= last_call.clock /\ last_call.clock <= 79200)
          /\ last_call.active.is_in_window <=> last_call.within[1]
  /\ CalledWith(SetupNight)
       => /\ last_call.within[1] <=> (last_call.clock >= 79200 \/ last_call.clock <= 28800)
          /\ last_call.active.is_in_window <=> last_call.within[1]
  /\ last_call.fn = "time_window"
       => /\ \A i \in 1..Len(setup.devices) :
                (WindowOf(setup.devices[i]).start.ok /\ WindowOf(setup.devices[i]).end.ok)
                  => (last_call.within[i] <=> i \in Matching)
          /\ last_call.active.is_in_window <=> Matching # {}

\* at 08:00:00, the end of the window that began at 22:00, both functions
\* have answered that the time is in the window
C17_AtEndOfWrappingWindow ==
  /\ CalledWith(SetupNight) /\ last_call.clock = 28800
  /\ last_call.within[1] /\ last_call.active.is_in_window

-----------------------------------------------------------------------------
(* SpecSwitch: SwitchEntityChecker.async_check_switch_entity applied to    *)
(* the switch configurations of a device and the states of the entities    *)

S_ON == <<"O","N">>

\* the device with or without a switch entity of its own (absent, empty or
\* named), with or without a custom state, under a global switch or none
SwitchSetups ==
  { [GlobalConfig(<< [DeviceConfig("urlA", Unset, Unset)
                        EXCEPT !.switch_entity_id = d, !.switch_entity_state = ds] >>)
       EXCEPT !.switch_entity = g, !.switch_entity_state = gs] :
      d \in {Unset, Text(<<>>), Text(E_Device)}, ds \in {Unset, Text(S_armed)},
      g \in {Unset, Text(E_Global)}, gs \in {Unset, Text(S_Off)} }

\* hass.states.get() of the device's switch entity and of the global one
SwitchStates ==
  { [device |-> d, global |-> g] :
      d \in {NotFound, Found(S_Off), Found(S_armed), Found(S_ON)},
      g \in {NotFound, Found(S_Off), Found(S_Home)} }

\* async_check_switch_entity(device_name, device_config) while the entities
\* are in the states hs
CheckSwitch(hs) ==
  /\ last_call' = [fn |-> "async_check_switch_entity", hs |-> hs,
                   result |-> async_check_switch_entity(setup.devices[1], hs)]
  /\ UNCHANGED <<device_ip_cache, unsubscribe_listeners, health_stats, engineVars>>

InitSwitch ==
  /\ max_retries = MaxRetriesCfg
  /\ active_casting_operations = << >>
  /\ active_subprocesses = << >>
  /\ proc = [c \in Callers |-> "none"]
  /\ co = [c \in Callers |-> IdleCo]
  /\ \E s \in SwitchSetups : InitMon(s, Clock[1])

NextSwitch == \E hs \in SwitchStates : CheckSwitch(hs)

SpecSwitch == InitSwitch /\ [][NextSwitch]_vars

\* the device names a switch entity of its own / a global one is named
DeviceGate ==
  setup.devices[1].switch_entity_id.given /\ setup.devices[1].switch_entity_id.text # <<>>
GlobalGate == setup.switch_entity.given /\ setup.switch_entity.text # <<>>

\* the state st against the custom state, or else against on, true, home and
\* open, of which the entities explored take ON and Home
GateRule(required, st) ==
  IF required.given THEN st = required.text ELSE st \in {S_ON, S_Home}

\* C18: with a switch entity of its own that exists, the device is enabled
\* iff that entity has the custom state, or without one a state among on,
\* true, home, open; without a switch of its own the same rule is applied to
\* the global switch entity; with no switch at either level it is enabled
C18_GateRule ==
  last_call.fn = "async_check_switch_entity" =>
    /\ (DeviceGate /\ last_call.hs.device.found)
         => (last_call.result <=>
               GateRule(setup.devices[1].switch_entity_state, last_call.hs.device.state))
    /\ (~DeviceGate /\ GlobalGate /\ last_call.hs.global.found)
         => (last_call.result <=>
               GateRule(setup.switch_entity_state, last_call.hs.global.state))
    /\ (~DeviceGate /\ ~GlobalGate) => last_call.result

\* the device's switch is ON, no custom state is required, the global
\* switch is Off, and the device is enabled
C18_DeviceSwitchDecides ==
  /\ last_call.fn = "async_check_switch_entity"
  /\ DeviceGate /\ ~setup.devices[1].switch_entity_state.given
  /\ GlobalGate /\ ~setup.switch_entity_state.given
  /\ last_call.hs = [device |-> Found(S_ON), global |-> Found(S_Off)]
  /\ last_call.result

\* C19 as claimed: when the switch entity that is configured for the device,
\* its own or the global one, is not found, the device is enabled
C19_MissingGateFailsOpen ==
  last_call.fn = "async_check_switch_entity" =>
    /\ (DeviceGate /\ ~last_call.hs.device.found) => last_call.result
    /\ (~DeviceGate /\ GlobalGate /\ ~last_call.hs.global.found) => last_call.result

\* C19: when the device's own switch entity is not found, the global switch
\* decides if it is configured and found, and else the device is enabled;
\* when only the global one is configured and not found, it is enabled
C19_MissingGateFallsBack ==
  last_call.fn = "async_check_switch_entity" =>
    /\ (DeviceGate /\ ~last_call.hs.device.found)
         => (last_call.result <=>
               IF GlobalGate /\ last_call.hs.global.found
               THEN GateRule(setup.switch_entity_state, last_call.hs.global.state)
               ELSE TRUE)
    /\ (~DeviceGate /\ GlobalGate /\ ~last_call.hs.global.found) => last_call.result

\* the device's own switch entity is not found, the global switch is Off,
\* and the device is not enabled
C19_MissingDeviceGateClosedByGlobal ==
  /\ last_call.fn = "async_check_switch_entity"
  /\ DeviceGate /\ GlobalGate /\ ~setup.switch_entity_state.given
  /\ last_call.hs = [device |-> NotFound, global |-> Found(S_Off)]
  /\ ~last_call.result

-----------------------------------------------------------------------------
(* Exceptions in the processing of a device, in Spec *)

\* C20: an exception raised while the device is processed does not end the
\* tick: the state of the device is left as it was, and the loop goes on to
\* the devices after it
C20_ExceptionDoesNotAbortTick ==
  body.raised => (body.loop = "next" /\ active_devices = body.prev)

\* the command of the raw status could not be started after both probes had
\* answered, and the exception has left the loop over the devices
C20_TickAbortedByException ==
  /\ body.raised /\ body.loop = "left" /\ body.pos = "raised"
  /\ body.log = <<"media_probe", "status_probe", "raw_status">>
  /\ monitor_lock

-----------------------------------------------------------------------------
(* The cast executor under two tasks, in SpecCast: the marker of the      *)
(* operation that replaced a stale one                                     *)

\* task c executes the cast sequence of the operation whose marker is set
Marked(c) ==
  /\ co[c].pc \in RunningPcs
  /\ co[c].ip \in DOMAIN active_casting_operations
  /\ active_casting_operations[co[c].ip].owner = c

\* another task is in the forced cleanup of the guard of its call
ForcedCleanup(c) ==
  \E d \in Callers \ {c} : co[d].pc \in {"checked", "takeover_wait"}

\* C21: while a task executes the cast sequence of the operation whose marker
\* is set, a step that is no forced cleanup by a new call leaves that marker
\* set and, if the step is not the task's own, leaves its subprocess running
C21_NewOperationKeepsMarker ==
  [][\A c \in Callers :
       (Marked(c) /\ co'[c].pc \in RunningPcs /\ ~ForcedCleanup(c))
         => /\ co[c].ip \in DOMAIN active_casting_operations'
            /\ active_casting_operations'[co[c].ip].owner = c
            /\ (co'[c] = co[c] /\ proc[c] = "running") => proc'[c] = "running"]_vars

\* one call for the address has returned through its finally clause on
\* media playing, and the sequence of the other call goes on without a marker
C21_SequenceWithoutMarker ==
  \E c \in Callers, d \in Callers :
     /\ c # d
     /\ co[c].pc \in RunningPcs /\ co[c].ip \notin DOMAIN active_casting_operations
     /\ co[d].pc = "returned" /\ co[d].ip = co[c].ip /\ co[d].outcome = "media_playing"

-----------------------------------------------------------------------------
(* SpecCommands: one task casting; a command may exit with any code or not *)
(* exit at all                                                             *)

InitCommands ==
  /\ max_retries = MaxRetriesCfg
  /\ active_casting_operations = << >>
  /\ active_subprocesses = << >>
  /\ proc = [c \in Callers |-> "none"]
  /\ co = [c \in Callers |-> IdleCo]
  /\ InitMon(SetupDefault, Clock[1])

NextCommands ==
  \/ Check("tick", "10.0.0.1")
  \/ Abandon("tick")
  \/ Call("tick", "urlA", NoVolume)
  \/ CommandStep("tick", VolumeProbes50)
  \/ Hang("tick")
  \/ Finish("tick")

SpecCommands == InitCommands /\ [][NextCommands]_vars

\* C22: every await of an external command of the cast sequence ends by a
\* timeout when its process does not exit: the call can take its next step
C22_EveryCommandBounded ==
  (co["tick"].pc \in CommandPcs /\ proc["tick"] = "hung")
    => ENABLED CommandStep("tick", VolumeProbes50)

\* the stop command does not exit and the call awaits it under its marker
C22_WaitingForStopForever ==
  /\ co["tick"].pc = "stop" /\ proc["tick"] = "hung"
  /\ "10.0.0.1" \in DOMAIN active_casting_operations
  /\ ~ENABLED NextCommands

\* the order of the commands of one attempt
CommandOrder == <<"status_vol", "stop", "vol_initial", "cast", "vol_final">>

\* C23: in each attempt the commands are issued in the order status, stop,
\* volume 0, cast_site, final volume, each from the await before it: the
\* cast_site command when the volume-0 command has returned, which was
\* issued when the stop command had returned, and the final volume command
\* from the verification probe
C23_CommandsInOrder ==
  [][\A c \in Callers :
       /\ co'[c].issued = SubSeq(CommandOrder, 1, Len(co'[c].issued))
       /\ Len(co'[c].issued) > Len(co[c].issued)
            => /\ Len(co'[c].issued) = Len(co[c].issued) + 1
               /\ <<co[c].pc, co'[c].pc>>
                    \in {<<"media", "status_vol">>, <<"status_vol", "stop">>,
                         <<"stop", "vol_initial">>, <<"vol_initial", "cast">>,
                         <<"verify", "vol_final">>}
       /\ co'[c].pc = "cast"
            => /\ ~Has(active_subprocesses', <<co'[c].ip, "stop">>)
               /\ ~Has(active_subprocesses', <<co'[c].ip, "vol_initial">>)]_vars

\* the final volume command has been issued after the four commands before it
\* and a verification probe that saw the dashboard
C23_FinalVolumeAfterVerification ==
  /\ co["tick"].pc = "vol_final" /\ co["tick"].issued = CommandOrder
  /\ co["tick"].status_check /\ co["tick"].stop_exit = "zero"

\* C24: an attempt whose stop, volume-0 or cast_site command has exited with
\* a code other than 0 goes no further and does not report success
C24_NonZeroExitFailsAttempt ==
  \A c \in Callers :
     ("nonzero" \in {co[c].stop_exit, co[c].vol_exit, co[c].cast_exit})
       => /\ co[c].pc \in {"retry_sleep", "cleanup_wait", "returned"}
          /\ ~co[c].result

\* the call has returned success from an attempt whose stop command and
\* volume-0 command both exited with a code other than 0
C24_SuccessAfterFailedStop ==
  /\ co["tick"].pc = "returned" /\ co["tick"].result
  /\ co["tick"].stop_exit = "nonzero" /\ co["tick"].vol_exit = "nonzero"
  /\ co["tick"].cast_exit = "zero"

-----------------------------------------------------------------------------
(* The tick of a disabled device and of a device outside its windows, in Spec *)

\* C25: from the moment a tick has found the device's switch check false, or
\* the time of day outside every window of the device, that tick does not go
\* towards a cast, calls no cast and sets no in-flight marker
C25_NoCastWhenClosedOrOutside ==
  (body.pos \notin {"none", "resolve"} /\ body.resolved
     /\ (~body.gate \/ OutsideEveryWindow))
    => /\ body.pos \notin CastPos
       /\ co["tick"].pc = "idle"
       /\ DeviceIp \notin DOMAIN active_casting_operations
       /\ body.issued = <<>>

\* the tick of a disconnected, disabled device has ended: the probe did not
\* see the dashboard, and nothing else was done
C25_DisabledIdleDeviceLeftAlone ==
  /\ body.pos = "end" /\ body.resolved /\ ~body.gate
  /\ body.prev.status = "disconnected" /\ body.prev.last_status_change = "old"
  /\ body.log = <<"status_probe">> /\ body.answers = <<"no">>
  /\ active_devices = body.prev

-----------------------------------------------------------------------------
(* the change of the dashboard between two ticks, in Spec *)

\* the stored change flag of the device is cleared by this step
FlagCleared ==
  active_device_configs.instance_change /\ ~active_device_configs'.instance_change

\* the tick has resolved the address and found the switch on, for the device
\* whose day and night windows cover the whole day
ResolvableEnabledInWindow == body.resolved /\ body.gate /\ setup = SetupDayNight

\* C26: when the dashboard of a resolvable, enabled, in-window device has
\* changed between two ticks, the change flag is cleared only after the tick
\* has invoked a cast of the new dashboard: the flag is cleared by the step
\* in which async_cast_dashboard, called with the URL of the new window, has
\* returned to async_start_device
C26_ChangeNeverDropped ==
  [][(FlagCleared /\ ResolvableEnabledInWindow)
       => /\ body.pos = "sd_cast"
          /\ co["tick"].pc = "returned"
          /\ co["tick"].url = setup.devices[active_device_configs.config].dashboard_url]_vars

\* a change of the dashboard was detected, the cast of the new dashboard was
\* invoked and has connected the device, and the flag is cleared
C26_ChangeCast ==
  /\ body.pos = "end" /\ body.instance_change /\ ResolvableEnabledInWindow
  /\ body.issued # <<>> /\ active_devices.status = "connected"
  /\ ~active_device_configs.instance_change

-----------------------------------------------------------------------------
(* SpecConfigs: async_update_device_configs applied tick after tick to the *)
(* configurations of a device as the time of day changes                   *)

\* a day and a night window that show the same dashboard
SetupSameUrl ==
  GlobalConfig(<< DeviceConfig("urlA", Text(T_0800), Text(T_2200)),
                  DeviceConfig("urlA", Text(T_2200), Text(T_0800)) >>)

ConfigSetups == {SetupDefault, SetupDayNight, SetupSameUrl, SetupGap, SetupOverlap}

\* the call at the start of a tick (monitoring.py:395); the call records
\* whether the device had an entry, the configuration selected at the call
\* before this one (0 for none) and the one selected now
UpdateConfigs ==
  /\ active_device_configs' = async_update_device_configs(active_device_configs, now)
  /\ last_call' =
       [fn |-> "update_configs", first |-> ~active_device_configs.present,
        prev |-> IF last_call.fn = "update_configs" THEN last_call.cur ELSE 0,
        cur |-> get_current_device_config(setup.devices, now).config]
  /\ UNCHANGED <<castVars, device_ip_cache, unsubscribe_listeners, health_stats, setup, now, monitor_lock, task, body,
                 active_devices>>

InitConfigs ==
  /\ max_retries = MaxRetriesCfg
  /\ active_casting_operations = << >>
  /\ active_subprocesses = << >>
  /\ proc = [c \in Callers |-> "none"]
  /\ co = [c \in Callers |-> IdleCo]
  /\ \E s \in ConfigSetups, t \in WindowTimes : InitMon(s, t)

NextConfigs ==
  \/ UpdateConfigs
  \/ \E t \in WindowTimes : ClockTo(t)

SpecConfigs == InitConfigs /\ [][NextConfigs]_vars

\* the update at the start of a tick has just run
Updated == last_call.fn = "update_configs"

\* C27: after the update at the start of a tick the change flag is set if
\* and only if the window selected at this tick is another one than the
\* window selected at the previous tick; at the first observation of the
\* device the flag is false
C27_FlagIffWindowDiffers ==
  Updated =>
    (active_device_configs.instance_change
       <=> (~last_call.first /\ last_call.prev # last_call.cur))

\* the selection went from the day window to the night window of the same
\* dashboard and the flag is not set
C27_OtherWindowSameUrl ==
  /\ Updated /\ ~last_call.first /\ setup = SetupSameUrl
  /\ last_call.prev = 1 /\ last_call.cur = 2
  /\ ~active_device_configs.instance_change

-----------------------------------------------------------------------------
(* media on a device that shows the dashboard, in Spec *)

\* C28: when the media probe of a tick reports media on a device stored as
\* connected, the status is kept for that one tick only: if the probe of the
\* next tick reports media again, the device is then classified
\* media_playing
C28_HeldForOneTick ==
  (body.pos = "end" /\ body.held /\ body.media_at = "tick")
    => active_devices.status = "media_playing"

\* the first tick with media on a connected device has kept the status
C28_HeldOnce ==
  /\ body.pos = "end" /\ ~body.held /\ body.media_at = "tick"
  /\ body.prev.known /\ body.prev.status = "connected"
  /\ active_devices.status = "connected"

-----------------------------------------------------------------------------
(* the end of a suspension, in SpecBackoff *)

\* the tick began with the device disconnected and its counter above 10, and
\* has ended with another classification of the device
SuspendedThenReclassified ==
  /\ body.pos = "end"
  /\ body.prev.status = "disconnected" /\ body.prev.reconnect_attempts > 10
  /\ active_devices.status # "disconnected"

\* C29: when the reconnection of a device is suspended (its counter has
\* passed 10) and a tick classifies the device other than disconnected, the
\* suspension is lifted: the counter is below 10 again, so that the next
\* reconnection of the idle device can go on to the cast
C29_StatusChangeLiftsSuspension ==
  SuspendedThenReclassified => active_devices.reconnect_attempts < 10

\* the suspended device was found showing the dashboard: its counter is 0
C29_LiftedByConnected ==
  /\ SuspendedThenReclassified
  /\ active_devices.status = "connected" /\ active_devices.reconnect_attempts = 0

-----------------------------------------------------------------------------
(* SpecReconnect: the ticks of a disconnected device that has a window by  *)
(* day, a speaker group and two switches, from its ninth failed reconnect  *)

InitReconnect ==
  /\ max_retries = MaxRetriesCfg
  /\ active_casting_operations = << >>
  /\ active_subprocesses = << >>
  /\ proc = [c \in Callers |-> "none"]
  /\ co = [c \in Callers |-> IdleCo]
  /\ device_ip_cache = EmptyCache
  /\ unsubscribe_listeners = Subscribed
  /\ health_stats = NoStats
  /\ last_call = NoCall
  /\ setup = SetupDaySwitch
  /\ \E i \in 1..Len(Clock) : now = Clock[i]
  /\ monitor_lock = FALSE
  /\ task = [t \in TickTasks |-> "idle"]
  /\ body = IdleBody
  /\ active_device_configs = [present |-> TRUE, config |-> 1, instance_change |-> FALSE]
  /\ active_devices = [known |-> TRUE, status |-> "disconnected",
                       reconnect_attempts |-> RECONNECT_CEILING - 1,
                       last_status_change |-> "old"]

NextReconnect ==
  \/ \E t \in TickTasks : Invoke(t)
  \/ \E t \in TickTasks : Skipped(t)
  \/ \E found \in BOOLEAN, hs \in HassStates : StepResolve(found, hs)
  \/ \E is_casting \in DashboardOutcomes : StepGateProbe(is_casting)
  \/ StepGateStop
  \/ \E is_casting \in DashboardOutcomes : StepWindowProbe(is_casting)
  \/ StepWindowStop
  \/ \E active \in SpeakerOutcomes : StepSgProbe(active)
  \/ \E playing \in MediaOutcomes : StepMediaProbe(playing)
  \/ \E is_casting \in DashboardOutcomes : StepStatusProbe(is_casting)
  \/ \E seen \in IdleOutcomes : StepIdleProbe(seen)
  \/ StepStatusSpawnRaises
  \/ \E active \in SpeakerOutcomes : StepRcSg(active)
  \/ \E playing \in MediaOutcomes : StepRcMedia(playing)
  \/ \E seen \in ReconnectOutcomes : StepRcStatus(seen)
  \/ TickCall
  \/ CastStep("tick", {pr \in VolumeProbes50 : ~pr.timeout})
  \/ StepCastDone
  \/ Release
  \/ ClockAdvance
  \/ Settle

SpecReconnect == InitReconnect /\ [][NextReconnect]_vars

\* in the step that takes async_reconnect_device to its cast: the time of
\* day is inside the window 08:00-22:00 of the device, the last three checks
\* were the speaker group check, the media check and the raw status, the
\* first two answered no, and the counter does not exceed 10
ReconnectGuards ==
  LET n == Len(body'.log) IN
  /\ now >= 28800 /\ now <= 79200
  /\ Len(body'.answers) = n /\ n >= 3
  /\ body'.log[n - 2] = "speaker_probe" /\ body'.answers[n - 2] = "no"
  /\ body'.log[n - 1] = "media_probe" /\ body'.answers[n - 1] = "no"
  /\ body'.log[n] = "raw_status"
  /\ active_devices'.reconnect_attempts <= 10

-----------------------------------------------------------------------------
(* content that is neither the dashboard nor idle, in Spec *)

\* the status the tick read for the device showed content that is neither
\* the dashboard nor the idle signature nor media: at the probe before a
\* forced reload, or at the probes of the normal checks (no media, dashboard
\* not showing, raw status not idle)
SawOtherContent ==
  \/ body.shown = "other"
  \/ /\ body.log \in {<<"media_probe", "status_probe", "raw_status">>,
                      <<"speaker_probe", "media_probe", "status_probe", "raw_status">>}
     /\ body.answers \in {<<"no", "no", "no">>, <<"no", "no", "no", "no">>}

-----------------------------------------------------------------------------
(* SpecGroup: the ticks of a device with a speaker group and two           *)
(* dashboards, one by day and one in the hour before 23:00                 *)

T_2300 == <<"2","3",":","0","0">>

SetupGroup ==
  [GlobalConfig(<< [DeviceConfig("urlA", Text(T_0800), Text(T_2200))
                      EXCEPT !.speaker_groups = TRUE],
                   [DeviceConfig("urlB", Text(T_2200), Text(T_2300))
                      EXCEPT !.speaker_groups = TRUE] >>)
     EXCEPT !.switch_entity = Text(E_Global)]

InitGroup ==
  /\ max_retries = MaxRetriesCfg
  /\ active_casting_operations = << >>
  /\ active_subprocesses = << >>
  /\ proc = [c \in Callers |-> "none"]
  /\ co = [c \in Callers |-> IdleCo]
  /\ \E i \in 1..Len(Clock) : InitMon(SetupGroup, Clock[i])

SpecGroup == InitGroup /\ [][Next]_vars

\* the last check of the tick was the speaker group check and it found a
\* group playing
SpeakerGroupActive ==
  /\ body.log # <<>> /\ body.log[Len(body.log)] = "speaker_probe"
  /\ Len(body.answers) = Len(body.log)
  /\ body.answers[Len(body.answers)] = "yes"

\* C32: a tick of an enabled, in-window device with speaker groups starts a
\* cast only after it has checked the groups, and a tick whose check finds a
\* group active ends there, with the device classified speaker_group_active
\* and no cast started
C32_NoCastWhileGroupActive ==
  /\ body.pos \in CastPos => \E i \in 1..Len(body.log) : body.log[i] = "speaker_probe"
  /\ SpeakerGroupActive
       => /\ body.pos = "end" /\ body.issued = <<>> /\ co["tick"].pc = "idle"
          /\ active_devices.status = "speaker_group_active"

\* the check of the normal path found the group playing: the tick has ended
\* with the classification and without a cast
C32_GroupActiveLeftAlone ==
  /\ body.pos = "end" /\ body.log = <<"speaker_probe">> /\ body.answers = <<"yes">>
  /\ active_devices.status = "speaker_group_active" /\ body.issued = <<>>

-----------------------------------------------------------------------------
(* a raw status command that gives no status, in Spec *)

\* the positions of the body inside async_reconnect_device
ReconnectPos == {"rc_sg", "rc_media", "rc_status", "rc_cast"}

\* C33: when the raw status command of the tick has timed out, exited
\* non-zero or printed nothing, the device is taken as not idle in that
\* tick: the tick does not go on to async_reconnect_device and does not end
\* with the device classified disconnected
C33_FailedProbeIsNotIdle ==
  body.failed
    => /\ body.pos \notin ReconnectPos
       /\ body.pos = "end" => /\ active_devices.status # "disconnected"
                              /\ "speaker_probe" # body.log[Len(body.log)]
                              /\ "media_probe" # body.log[Len(body.log)]

\* the raw status command failed for a device that was disconnected: the
\* tick has ended with the device classified other_content
C33_FailedProbeOtherContent ==
  /\ body.pos = "end" /\ body.failed
  /\ body.prev.known /\ body.prev.status = "disconnected"
  /\ body.prev.last_status_change = "old"
  /\ body.answers[Len(body.answers)] = "no"
  /\ active_devices.status = "other_content" /\ body.issued = <<>>

-----------------------------------------------------------------------------
(* SpecLookup: the ticks of the device configured by the name "Kitchen",   *)
(* whose address each tick looks up with async_get_device_ip, at 08:00     *)

\* _get_device_ip_with_timeout(device_name) returns to the tick: the result
\* is kept in device_ip_map for this tick
Lookup(scan) ==
  /\ body.pos = "resolve"
  /\ last_call = NoCall
  /\ LET r == async_get_device_ip(X_Kitchen, device_ip_cache, scan)
     IN  /\ last_call' = [fn |-> "lookup", result |-> r.result, scanned |-> r.scanned,
                         scan |-> scan]
         /\ device_ip_cache' = r.cache
  /\ UNCHANGED <<unsubscribe_listeners, health_stats, engineVars>>

\* the tick goes on with what the lookup gave
StepResolved(hs) ==
  /\ last_call.fn = "lookup"
  /\ StepResolve(last_call.result.found, hs)

\* the invocation has returned: its device_ip_map is gone
Forget ==
  /\ body.pos = "none"
  /\ last_call.fn = "lookup"
  /\ last_call' = NoCall
  /\ UNCHANGED <<device_ip_cache, unsubscribe_listeners, health_stats, engineVars>>

\* async_monitor_devices is invoked after the invocation before it returned
InvokeLookup(t) == last_call = NoCall /\ Invoke(t)

\* ElapseStep seconds pass between two ticks
ElapseBetweenTicks == body.pos = "none" /\ Elapse

InitLookup ==
  /\ max_retries = MaxRetriesCfg
  /\ active_casting_operations = << >>
  /\ active_subprocesses = << >>
  /\ proc = [c \in Callers |-> "none"]
  /\ co = [c \in Callers |-> IdleCo]
  /\ InitMon(SetupDefault, Clock[1])

NextLookup ==
  \/ \E t \in TickTasks : InvokeLookup(t)
  \/ \E t \in TickTasks : Skipped(t)
  \/ \E scan \in ScanResults : Lookup(scan)
  \/ \E hs \in HassStates : StepResolved(hs)
  \/ \E playing \in MediaOutcomes : StepMediaProbe(playing)
  \/ \E is_casting \in DashboardOutcomes : StepStatusProbe(is_casting)
  \/ \E seen \in IdleOutcomes : StepIdleProbe(seen)
  \/ StepStatusSpawnRaises
  \/ \E playing \in MediaOutcomes : StepRcMedia(playing)
  \/ \E seen \in ReconnectOutcomes : StepRcStatus(seen)
  \/ TickCall
  \/ CastStep("tick", {pr \in VolumeProbes50 : ~pr.timeout})
  \/ StepCastDone
  \/ Release
  \/ Forget
  \/ ElapseBetweenTicks
  \/ Settle

SpecLookup == InitLookup /\ [][NextLookup]_vars

\* the scan of the lookup failed or found no device named Kitchen
ScanFoundNothing ==
  /\ last_call.fn = "lookup" /\ last_call.scanned
  /\ \/ last_call.scan.raised \/ last_call.scan.timeout \/ last_call.scan.rc # 0
     \/ last_call.scan.out \in {<<S_Header, S_Den>>, <<S_Header, S_Blank, S_Junk>>}

\* C34: a lookup whose scan raises, times out, fails or does not list the
\* name gives no address and raises nothing, and the tick that got no
\* address ends at once for the device: it starts no probe and issues no
\* command, raises nothing, and leaves the device's entry (classification,
\* time of the last change, reconnect counter) as it was
C34_NotFoundSkipsDevice ==
  /\ ScanFoundNothing => last_call.result = NoIp
  /\ (last_call.fn = "lookup" /\ last_call.result = NoIp /\ body.pos # "resolve")
       => /\ body.pos \in {"end", "none"}
          /\ body.pos = "end"
               => /\ ~body.resolved /\ ~body.raised /\ body.loop = "next"
                  /\ body.log = <<>> /\ body.issued = <<>>
                  /\ co["tick"].pc = "idle"
                  /\ active_devices = body.prev

\* a known, disconnected device whose scan timed out: the tick has ended and
\* the entry is as it was
C34_TimedOutScanSkipped ==
  /\ body.pos = "end" /\ last_call.fn = "lookup" /\ last_call.scan.timeout
  /\ last_call.result = NoIp
  /\ body.prev.known /\ body.prev.status = "disconnected"
  /\ active_devices = body.prev /\ body.log = <<>>

-----------------------------------------------------------------------------
(* the cache of async_get_device_ip, in SpecResolve *)

\* this step is a call for the name of the call before it, which found the
\* device by a scan
ResolvedAgain ==
  /\ last_call.fn = "async_get_device_ip" /\ last_call.scanned /\ last_call.result.found
  /\ last_call'.seq # last_call.seq /\ last_call'.x = last_call.x

\* less than 300 seconds have passed since the scan listed the device
DiscoveredRecently ==
  \E n \in DOMAIN device_ip_cache :
     /\ Lower(n) = Lower(last_call.x)
     /\ device_ip_cache[n].ip = last_call.result.ip
     /\ device_ip_cache[n].age < 300

\* C35: a call for a name that the call before it found by a scan returns,
\* within 300 seconds of that scan, the same address without a scan; once
\* 300 seconds have passed the call runs a scan
C35_CachedFor300Seconds ==
  [][ResolvedAgain =>
       IF DiscoveredRecently
       THEN ~last_call'.scanned /\ last_call'.result = last_call.result
       ELSE last_call'.scanned]_vars

\* the name Kitchen, found by a scan, has been resolved again from the cache
C35_SecondCallFromCache ==
  /\ last_call.fn = "async_get_device_ip" /\ last_call.x = X_Kitchen
  /\ last_call.seq = 1 /\ ~last_call.scanned /\ last_call.cache_read
  /\ last_call.result = Ip(X_Ip)
  /\ device_ip_cache[X_Kitchen].age < CACHE_SECONDS

-----------------------------------------------------------------------------
(* a window whose time does not parse, in SpecWindow *)

\* the configurations of the device whose start time ("8pm") does not parse
Unparseable == IF setup \in {SetupBadTime, SetupBadFirst} THEN {1} ELSE {}

\* C36: a window whose start or end time does not parse counts as holding
\* the time of day in both functions: async_is_within_time_window answers
\* True for it, and get_current_device_config selects it, with is_in_window
\* True, unless a window before it matches
C36_UnparseableMeansInWindow ==
  last_call.fn = "time_window"
    => \A i \in Unparseable :
          /\ last_call.within[i]
          /\ last_call.active.is_in_window /\ last_call.active.config <= i

\* async_is_within_time_window has answered True for the window 8pm-23:59
\* at midnight
C36_WithinDefaultsToTrue ==
  /\ last_call.fn = "time_window" /\ setup = SetupBadTime /\ last_call.clock = 0
  /\ last_call.within[1]

-----------------------------------------------------------------------------
(* SpecEngine: the started integration with its interval listeners, the    *)
(* ticks of one device at 08:00, and stop()                                *)

\* ContinuouslyCastingDashboards.stop: every listener is unsubscribed and the
\* list is cleared
Stop ==
  /\ unsubscribe_listeners # {}
  /\ unsubscribe_listeners' = {}
  /\ UNCHANGED <<device_ip_cache, last_call, health_stats, engineVars>>

\* async_monitor_devices is invoked: by the monitoring interval while its
\* listener is subscribed, or as the task that
\* start_background_initialization creates in the started integration
ScheduledTick(t) ==
  /\ IF t = "interval" THEN "monitor" \in unsubscribe_listeners
                       ELSE unsubscribe_listeners # {}
  /\ Invoke(t)

InitEngine ==
  /\ max_retries = MaxRetriesCfg
  /\ active_casting_operations = << >>
  /\ active_subprocesses = << >>
  /\ proc = [c \in Callers |-> "none"]
  /\ co = [c \in Callers |-> IdleCo]
  /\ InitMon(SetupDefault, Clock[1])

NextEngine ==
  \/ Stop
  \/ \E t \in TickTasks : ScheduledTick(t)
  \/ \E t \in TickTasks : Skipped(t)
  \/ \E found \in BOOLEAN, hs \in HassStates : StepResolve(found, hs)
  \/ \E playing \in MediaOutcomes : StepMediaProbe(playing)
  \/ \E is_casting \in DashboardOutcomes : StepStatusProbe(is_casting)
  \/ \E seen \in IdleOutcomes : StepIdleProbe(seen)
  \/ StepStatusSpawnRaises
  \/ \E playing \in MediaOutcomes : StepRcMedia(playing)
  \/ \E seen \in ReconnectOutcomes : StepRcStatus(seen)
  \/ TickCall
  \/ CastStep("tick", {pr \in VolumeProbes50 : ~pr.timeout})
  \/ StepCastDone
  \/ Release
  \/ Settle

SpecEngine == InitEngine /\ [][NextEngine]_vars

\* this step is the call of stop()
Stopping == unsubscribe_listeners # {} /\ unsubscribe_listeners' = {}

\* C37: stop() cancels every interval listener, so that no scheduled tick
\* starts after it, and when stop() returns no subprocess of a cast is
\* still running
C37_StopEndsTicksAndCasts ==
  [][/\ Stopping => /\ \A c \in Callers : proc'[c] \notin {"running", "hung"}
                    /\ active_subprocesses' = << >>
     /\ unsubscribe_listeners = {}
          => /\ unsubscribe_listeners' = {}
             /\ task["interval"] = "idle" => task'["interval"] = "idle"]_vars

\* stop() was called, the tick of the known device has ended: no listener
\* is left, no tick runs and no subprocess is alive
C37_StoppedBetweenTicks ==
  /\ unsubscribe_listeners = {} /\ active_devices.known
  /\ body.pos = "none" /\ \A t \in TickTasks : task[t] = "idle"
  /\ active_subprocesses = << >> /\ proc["tick"] = "none"

-----------------------------------------------------------------------------
(* SpecTrigger: dashboard_caster.py, the state triggers of one device      *)

W_PLAYING == <<"P","L","A","Y","I","N","G">>
W_PAUSED == <<"P","A","U","S","E","D">>

\* what check_status returns: None after an error or a timeout, else stdout
TriggerStatuses ==
  {[none |-> TRUE, out |-> << >>]} \cup
  {[none |-> FALSE, out |-> o] :
     o \in { << >>, <<L_Vol50, L_VolMuted>>,
             <<L_TitleSong, L_StatePlaying, L_Vol0>>,
             <<L_StatePaused, L_Vol50>> }}

\* int(trigger["time_out"]) if "time_out" in trigger else None
TimeOuts ==
  {[configured |-> FALSE, seconds |-> 0],
   [configured |-> TRUE, seconds |-> 0],
   [configured |-> TRUE, seconds |-> 30]}

\* one entry of state_triggers_map[device_name]
Trigger(entity_id, force_cast, time_out, dashboard_url) ==
  [entity_id |-> entity_id, to_state |-> "on", dashboard_url |-> dashboard_url,
   time_out |-> time_out, force_cast |-> force_cast]

\* state_triggers_map[device_name]: one trigger, or a trigger without
\* force_cast followed by one with it for the same entity and state
StateTriggerLists ==
  {<<Trigger("binary_sensor.door", f, t, "urlA")>> :
     f \in BOOLEAN, t \in TimeOuts} \cup
  {<<Trigger("binary_sensor.door", FALSE, t1, "urlA"),
     Trigger("binary_sensor.door", TRUE, t2, "urlB")>> :
     t1 \in TimeOuts, t2 \in TimeOuts}

\* event.data: the entity and its new state ("None": new_state is None)
TriggerEvents ==
  {[entity_id |-> e, new_state |-> n] :
     e \in {"binary_sensor.door", "sensor.other"}, n \in {"None", "on", "off"}}

\* what goes wrong in cast_dashboard: nothing, the wait for one of its four
\* commands times out, or check_status returns None for the volume
CastFaults == {"none", "stop", "status", "volume 0", "cast_site", "volume"}

\* the entities of all triggers
monitored_entities(state_triggers) ==
  {state_triggers[i].entity_id : i \in 1..Len(state_triggers)}

\* check_media_state: True when media_state_name ("PLAYING") is in the
\* status output, None otherwise
check_media_state(st) == ~st.none /\ TextContains(st.out, W_PLAYING)

\* is_media_playing: PLAYING or PAUSED in a non-empty status output, looked
\* for a second time after 5 seconds
is_media_playing(first, second) ==
  IF first.none \/ first.out = << >> THEN FALSE
  ELSE IF TextContains(first.out, W_PLAYING) \/ TextContains(first.out, W_PAUSED)
       THEN TRUE
  ELSE /\ ~second.none /\ second.out # << >>
       /\ TextContains(second.out, W_PLAYING) \/ TextContains(second.out, W_PAUSED)

\* cast_dashboard: the catt commands it starts, and whether it raises
cast_dashboard(dashboard_url, first, second, fault) ==
  LET stop == [cmd |-> "stop", arg |-> ""]
      mute == [cmd |-> "volume", arg |-> "0"]
      site == [cmd |-> "cast_site", arg |-> dashboard_url]
      loud == [cmd |-> "volume", arg |-> "custom"]
  IN IF is_media_playing(first, second)
       THEN [commands |-> << >>, raised |-> FALSE]
     ELSE IF fault = "stop" THEN [commands |-> <<stop>>, raised |-> FALSE]
     ELSE IF fault = "status" THEN [commands |-> <<stop>>, raised |-> TRUE]
     ELSE IF fault = "volume 0" THEN [commands |-> <<stop, mute>>, raised |-> FALSE]
     ELSE IF fault = "cast_site"
       THEN [commands |-> <<stop, mute, site>>, raised |-> FALSE]
     ELSE [commands |-> <<stop, mute, site, loud>>, raised |-> FALSE]

\* the loop of handle_state_change_event over the triggers of the device,
\* from trigger i on
RECURSIVE TriggerLoop(_, _, _, _, _)
TriggerLoop(state_triggers, i, event, seen, fault) ==
  IF i > Len(state_triggers)
    THEN [commands |-> << >>, by |-> 0, timer |-> "none", raised |-> FALSE,
          casting_triggered_by_state_change |-> FALSE]
  ELSE LET trigger == state_triggers[i] IN
    IF /\ trigger.entity_id = event.entity_id
       /\ trigger.to_state = event.new_state
       /\ (trigger.force_cast \/ ~check_media_state(seen.media))
      THEN LET c == cast_dashboard(trigger.dashboard_url, seen.first,
                                   seen.second, fault)
           IN [commands |-> c.commands, by |-> i,
               timer |-> IF c.raised THEN "none" ELSE "sleeping",
               raised |-> c.raised,
               casting_triggered_by_state_change |-> c.raised]
    ELSE TriggerLoop(state_triggers, i + 1, event, seen, fault)

\* handle_state_change_event(event)
handle_state_change_event(state_triggers, event, seen, fault) ==
  /\ LET ran == event.entity_id \in monitored_entities(state_triggers)
                  /\ event.new_state # "None"
         r == IF ran THEN TriggerLoop(state_triggers, 1, event, seen, fault)
              ELSE TriggerLoop(state_triggers, Len(state_triggers) + 1,
                               event, seen, fault)
     IN last_call' =
          [fn |-> "handle_state_change_event", state_triggers |-> state_triggers,
           event |-> event, seen |-> seen, fault |-> fault,
           commands |-> r.commands, by |-> r.by, timer |-> r.timer,
           raised |-> r.raised,
           casting_triggered_by_state_change |-> r.casting_triggered_by_state_change,
           stopped |-> FALSE]
  /\ UNCHANGED <<device_ip_cache, unsubscribe_listeners, health_stats, engineVars>>

\* stop_casting_after_timeout(device_name, trigger["time_out"]): the task
\* the handler created sleeps and issues `catt -d <device> stop`
stop_casting_after_timeout ==
  /\ last_call.fn = "handle_state_change_event"
  /\ last_call.timer = "sleeping"
  /\ LET timeout == last_call.state_triggers[last_call.by].time_out
     IN last_call' =
          [last_call EXCEPT
             !.timer = "done",
             !.stopped = timeout.configured /\ timeout.seconds # 0]
  /\ UNCHANGED <<device_ip_cache, unsubscribe_listeners, health_stats, engineVars>>

\* the handler has returned and its task, if any, has ended
TriggerReturned ==
  /\ last_call.fn = "handle_state_change_event"
  /\ last_call.timer # "sleeping"
  /\ last_call' = NoCall
  /\ UNCHANGED <<device_ip_cache, unsubscribe_listeners, health_stats, engineVars>>

InitTrigger ==
  /\ max_retries = MaxRetriesCfg
  /\ active_casting_operations = << >>
  /\ active_subprocesses = << >>
  /\ proc = [c \in Callers |-> "none"]
  /\ co = [c \in Callers |-> IdleCo]
  /\ InitMon(SetupDefault, Clock[1])

\* the status outputs of one run of the handler: check_media_state and
\* is_media_playing see the same status, the second look of is_media_playing
\* comes 5 seconds later
SeenByHandler ==
  {[media |-> a, first |-> a, second |-> b] :
     a \in TriggerStatuses, b \in TriggerStatuses}

\* a state_changed event arrives when no run of the handler is under way
StateChanged ==
  /\ last_call = NoCall
  /\ \E state_triggers \in StateTriggerLists, event \in TriggerEvents,
        seen \in SeenByHandler, fault \in CastFaults :
       handle_state_change_event(state_triggers, event, seen, fault)

NextTrigger ==
  \/ StateChanged
  \/ stop_casting_after_timeout
  \/ TriggerReturned

SpecTrigger == InitTrigger /\ [][NextTrigger]_vars

\* the first trigger of the device that the event of the last call matches,
\* 0 when there is none
Matched ==
  LET ts == last_call.state_triggers
      hit == {i \in 1..Len(ts) :
                /\ ts[i].entity_id = last_call.event.entity_id
                /\ ts[i].to_state = last_call.event.new_state}
  IN IF hit = {} THEN 0 ELSE CHOOSE i \in hit : \A j \in hit : i <= j

\* the handler issued cast_site for the dashboard of trigger i
CastSiteOf(i) ==
  \E k \in 1..Len(last_call.commands) :
     last_call.commands[k] =
       [cmd |-> "cast_site", arg |-> last_call.state_triggers[i].dashboard_url]

\* the device showed the same status at every look of the last call
SteadyStatus ==
  /\ last_call.seen.first = last_call.seen.media
  /\ last_call.seen.second = last_call.seen.media

\* C38: when the entity changes to the target state of a trigger, the
\* device shows one status throughout and no command of the cast fails, the
\* handler casts the trigger's dashboard if force_cast is set or the status
\* shows no media playing or paused, and does not cast it when force_cast
\* is unset and media is playing; once the task of the timeout has ended, a
\* stop was issued if the trigger has a timeout above zero and none if it
\* has no timeout
C38_TriggerCasts ==
  (last_call.fn = "handle_state_change_event" /\ last_call.fault = "none"
     /\ Matched # 0 /\ SteadyStatus)
    => LET trigger == last_call.state_triggers[Matched]
           out == last_call.seen.media.out
           playing == \E k \in 1..Len(out) :
                         Contains(out[k], W_PLAYING) \/ Contains(out[k], W_PAUSED)
           is_playing == \E k \in 1..Len(out) : Contains(out[k], W_PLAYING)
       IN /\ (trigger.force_cast \/ ~playing) => CastSiteOf(Matched)
          /\ (~trigger.force_cast /\ is_playing) => ~CastSiteOf(Matched)
          /\ (last_call.timer = "done" /\ last_call.by = Matched)
               => /\ (trigger.time_out.configured /\ trigger.time_out.seconds > 0)
                       => last_call.stopped
                  /\ ~trigger.time_out.configured => ~last_call.stopped

\* the door went on, nothing was playing, the trigger without force_cast
\* cast urlA and the stop followed after its 30 seconds
C38_CastThenStopped ==
  /\ last_call.fn = "handle_state_change_event" /\ last_call.fault = "none"
  /\ Matched = 1 /\ ~last_call.state_triggers[1].force_cast
  /\ CastSiteOf(1)
  /\ last_call.timer = "done" /\ last_call.stopped

-----------------------------------------------------------------------------
(* SpecStats: the ticks of one device at 08:00 with the stats manager set  *)

\* the ticks begin while fewer than MaxStatEvents events have been recorded
MaxStatEvents == 3

\* the events recorded so far
StatEvents ==
  health_stats.connection_attempts + health_stats.successful_connections
  + health_stats.disconnections + health_stats.reconnect_attempts
  + health_stats.successful_reconnects + health_stats.failed_reconnects

\* set_stats_manager(self.stats_manager), before the first tick
set_stats_manager ==
  /\ ~health_stats.manager
  /\ \A t \in TickTasks : task[t] = "idle"
  /\ ~active_devices.known
  /\ health_stats' = [health_stats EXCEPT !.manager = TRUE]
  /\ UNCHANGED <<device_ip_cache, last_call, unsubscribe_listeners, engineVars>>

\* async_monitor_devices is invoked
InvokeCounted(t) ==
  /\ health_stats.manager
  /\ StatEvents < MaxStatEvents
  /\ Invoke(t)

\* the stabilisation period of the device passes between two ticks
SettleBetweenTicks == body.pos = "none" /\ Settle

InitStats ==
  /\ max_retries = MaxRetriesCfg
  /\ active_casting_operations = << >>
  /\ active_subprocesses = << >>
  /\ proc = [c \in Callers |-> "none"]
  /\ co = [c \in Callers |-> IdleCo]
  /\ InitMon(SetupDefault, Clock[1])

NextStats ==
  \/ set_stats_manager
  \/ \E t \in TickTasks : InvokeCounted(t)
  \/ \E t \in TickTasks : Skipped(t)
  \/ \E found \in BOOLEAN, hs \in HassStates : StepResolve(found, hs)
  \/ \E playing \in MediaOutcomes : StepMediaProbe(playing)
  \/ \E is_casting \in DashboardOutcomes : StepStatusProbe(is_casting)
  \/ \E seen \in IdleOutcomes : StepIdleProbe(seen)
  \/ StepStatusSpawnRaises
  \/ \E playing \in MediaOutcomes : StepRcMedia(playing)
  \/ \E seen \in ReconnectOutcomes : StepRcStatus(seen)
  \/ TickCall
  \/ CastStep("tick", {pr \in VolumeProbes50 : ~pr.timeout})
  \/ StepCastDone
  \/ Release
  \/ SettleBetweenTicks

SpecStats == InitStats /\ [][NextStats]_vars

\* C39: no health counter of the device ever decreases, the successful
\* connections never exceed the connection attempts, and the successful and
\* the failed reconnects together never exceed the reconnect attempts
C39_CountersBalanced ==
  [][/\ health_stats'.connection_attempts >= health_stats.connection_attempts
     /\ health_stats'.successful_connections >= health_stats.successful_connections
     /\ health_stats'.disconnections >= health_stats.disconnections
     /\ health_stats'.reconnect_attempts >= health_stats.reconnect_attempts
     /\ health_stats'.successful_reconnects >= health_stats.successful_reconnects
     /\ health_stats'.failed_reconnects >= health_stats.failed_reconnects
     /\ health_stats'.successful_connections <= health_stats'.connection_attempts
     /\ health_stats'.successful_reconnects + health_stats'.failed_reconnects
          <= health_stats'.reconnect_attempts]_vars

\* a reconnect was attempted and its success recorded
C39_ReconnectCounted ==
  /\ health_stats.manager
  /\ health_stats.reconnect_attempts = 1
  /\ health_stats.successful_reconnects = 1
  /\ health_stats.failed_reconnects = 0
====
